---- MODULE Spec2Model ----
(***************************************************************************)
(* Appointment store of the beauty_manager bot (src/database.py) and the   *)
(* client dialogue that drives it (src/handlers.py).                       *)
(*                                                                         *)
(* Representation.                                                         *)
(*   - A text (Python str) that the code takes apart is a sequence of      *)
(*     one-character strings: "09:00" is <<"0","9",":","0","0">>.          *)
(*   - A date text is <<format, day>>: <<"Y-m-d", 3>> is day 3 written in  *)
(*     the stored ISO form, <<"d.m.Y", 3>> the same day as users type it.  *)
(*   - Python None / SQL NULL is NULL where an integer is expected (0 is    *)
(*     the integer 0, which Python treats as false exactly as it treats    *)
(*     None) and NoPhone for the optional phone text.                      *)
(*   - The appointments table is a sequence; AUTOINCREMENT makes a row's   *)
(*     id its position, and no statement of the code deletes a row.        *)
(*   - created_at / updated_at are not modelled: no code reads them.       *)
(***************************************************************************)
EXTENDS Integers, Sequences, FiniteSets, TLC

VARIABLES
    appointments,   \* table appointments: Seq of rows, id = index
    clients,        \* table clients: telegram_user_id -> row or NoClient
    today,          \* datetime.now().date(), as a day number
    last,           \* the last Store call or dialogue event and its result
    phase,          \* "seq": calls run one at a time; "race": two callers
    pc,             \* per concurrent caller: its position in its call
    call,           \* per concurrent caller: the call it is executing
    writer,         \* the connection holding SQLite's write lock, or NoProc
    fsm             \* per dialogue user: FSM state and its data

vars == <<appointments, clients, today, last, phase, pc, call, writer, fsm>>

-----------------------------------------------------------------------------
(* Bounds of the model *)

MaxAppts == 2       \* rows the sequential specifications insert
MaxDay == 2         \* the clock stops advancing at this day

(* Python None / SQL NULL *)
NULL == -1

NoPhone == "NULL"

(* no row of clients has this telegram_user_id *)
NoClient == [name |-> "", phone |-> NoPhone, first_visit |-> NULL,
             last_visit |-> NULL, total_visits |-> NULL]

NoProc == "none"
Procs == {"p1", "p2"}

-----------------------------------------------------------------------------
(* Texts *)

Digits == <<"0", "1", "2", "3", "4", "5", "6", "7", "8", "9">>

IsDigit(c) == \E i \in 1..10 : Digits[i] = c

DigitValue(c) == (CHOOSE i \in 1..10 : Digits[i] = c) - 1

(* int(s) for a text of decimal digits; ValueError is NULL *)
RECURSIVE IntOf(_)
IntOf(s) ==
    IF s = <<>> \/ \E i \in 1..Len(s) : ~IsDigit(s[i]) THEN NULL
    ELSE IF Len(s) = 1 THEN DigitValue(s[1])
    ELSE 10 * IntOf(SubSeq(s, 1, Len(s) - 1)) + DigitValue(s[Len(s)])

(* s.split(':') *)
RECURSIVE SplitColon(_)
SplitColon(s) ==
    IF \A i \in 1..Len(s) : s[i] # ":" THEN <<s>>
    ELSE LET k == CHOOSE i \in 1..Len(s) :
                      s[i] = ":" /\ \A j \in 1..(i - 1) : s[j] # ":"
         IN  <<SubSeq(s, 1, k - 1)>> \o SplitColon(SubSeq(s, k + 1, Len(s)))

(* map(int, s.split(':')) unpacked into (hour, minute), as minutes of the day *)
HourMinute(s) ==
    LET parts == SplitColon(s)
    IN  60 * IntOf(parts[1]) + IntOf(parts[2])

(* datetime.strftime('%H:%M') of a time given in minutes of the day *)
StrfTime(m) ==
    <<Digits[((m \div 60) \div 10) + 1], Digits[((m \div 60) % 10) + 1], ":",
      Digits[((m % 60) \div 10) + 1], Digits[((m % 60) % 10) + 1]>>

(* date.strftime('%Y-%m-%d'), also sqlite3's adapter for datetime.date *)
IsoDate(day) == <<"Y-m-d", day>>

(* date.strftime('%d.%m.%Y') *)
DmyDate(day) == <<"d.m.Y", day>>

(* datetime.strptime(s, '%d.%m.%Y').date(); ValueError is NULL *)
StrpDmy(s) == IF s[1] = "d.m.Y" THEN s[2] ELSE NULL

(* SQLite's comparison a < b of two dates stored as ISO texts, whose        *)
(* lexicographic order is the order of the days                            *)
DateLess(a, b) == a[2] < b[2]

-----------------------------------------------------------------------------
(* Python truthiness and SQL equality, of integers or NULL *)

Truthy(x) == x # NULL /\ x # 0

SqlEq(a, b) == a # NULL /\ b # NULL /\ a = b

-----------------------------------------------------------------------------
(* config.py: the business-hours template *)

WORKING_HOURS ==
    [start       |-> <<"0", "9", ":", "0", "0">>,
     end         |-> <<"1", "8", ":", "0", "0">>,
     break_start |-> <<"1", "3", ":", "0", "0">>,
     break_end   |-> <<"1", "4", ":", "0", "0">>]

-----------------------------------------------------------------------------
(* Rows *)

Row(client_name, telegram_user_id, phone, appointment_date, appointment_time, service, status) ==
    [client_name      |-> client_name,
     telegram_user_id |-> telegram_user_id,
     phone            |-> phone,
     appointment_date |-> appointment_date,
     appointment_time |-> appointment_time,
     service          |-> service,
     status           |-> status]

Ids(tbl) == 1..Len(tbl)

(* WHERE id = ? on the INTEGER PRIMARY KEY: no row has id NULL or 0 *)
HasId(tbl, id) == id \in Ids(tbl)

ActiveIds(tbl) == {i \in Ids(tbl) : tbl[i].status = "active"}

(* the ids of the active rows at (date, time), the code's notion of a conflict *)
ActiveAt(tbl, date, time) ==
    {i \in ActiveIds(tbl) :
        /\ tbl[i].appointment_time = time
        /\ tbl[i].appointment_date = date}

Min(S) == CHOOSE x \in S : \A y \in S : x <= y

-----------------------------------------------------------------------------
(* Reads *)

(* faulty variant: the exclusion "AND id != ?" applied whether or not an    *)
(* exclude_id was given, so that without one "id != NULL" matches no row    *)
check_time_conflict_always_excluding(tbl, new_time, appointment_date, exclude_id) ==
    LET hits == IF exclude_id = NULL THEN {}
                ELSE ActiveAt(tbl, appointment_date, new_time) \ {exclude_id}
    IN  IF hits = {} THEN <<>> ELSE <<tbl[Min(hits)].client_name>>

(* faulty variant: the conflict query without its status filter *)
check_time_conflict_any_status(tbl, new_time, appointment_date, exclude_id) ==
    LET at == {i \in Ids(tbl) : /\ tbl[i].appointment_time = new_time
                                /\ tbl[i].appointment_date = appointment_date}
        hits == IF Truthy(exclude_id) THEN at \ {exclude_id} ELSE at
    IN  IF hits = {} THEN <<>> ELSE <<tbl[Min(hits)].client_name>>

(* faulty variant: exclude_id is ignored *)
check_time_conflict_never_excluding(tbl, new_time, appointment_date, exclude_id) ==
    LET hits == ActiveAt(tbl, appointment_date, new_time)
    IN  IF hits = {} THEN <<>> ELSE <<tbl[Min(hits)].client_name>>

(* cursor.fetchone() of the conflict query: <<client_name>> of the first    *)
(* matching row, or <<>> for None                                           *)
check_time_conflict(tbl, new_time, appointment_date, exclude_id) ==
    LET hits == IF Truthy(exclude_id)
                THEN ActiveAt(tbl, appointment_date, new_time) \ {exclude_id}
                ELSE ActiveAt(tbl, appointment_date, new_time)
    IN  IF hits = {} THEN <<>> ELSE <<tbl[Min(hits)].client_name>>

(* the row tuple of an active appointment, or <<>> for None *)
get_appointment_by_id(tbl, appointment_id) ==
    IF HasId(tbl, appointment_id) /\ tbl[appointment_id].status = "active"
    THEN LET r == tbl[appointment_id]
         IN  <<r.client_name, r.appointment_date, r.appointment_time, r.service,
               IF r.telegram_user_id = NULL THEN 0 ELSE r.telegram_user_id>>
    ELSE <<>>

(* faulty variant: a slot at the current minute is still offered *)
RECURSIVE SlotLoopNotBefore(_, _, _, _, _, _)
SlotLoopNotBefore(current_time, end_time, break_start, break_end, busy_times, prune) ==
    IF ~(current_time < end_time) THEN <<>>
    ELSE LET time_str == StrfTime(current_time)
             rest == SlotLoopNotBefore(current_time + 30, end_time, break_start,
                                       break_end, busy_times, prune)
         IN  IF break_start <= current_time /\ current_time < break_end
             THEN rest
             ELSE IF time_str \notin busy_times
                       /\ (prune # NULL => current_time >= prune)
                  THEN <<time_str>> \o rest
                  ELSE rest

(* faulty variant: the break is not skipped *)
RECURSIVE SlotLoopThroughBreak(_, _, _, _, _, _)
SlotLoopThroughBreak(current_time, end_time, break_start, break_end, busy_times, prune) ==
    IF ~(current_time < end_time) THEN <<>>
    ELSE LET time_str == StrfTime(current_time)
             rest == SlotLoopThroughBreak(current_time + 30, end_time, break_start,
                                          break_end, busy_times, prune)
         IN  IF time_str \notin busy_times
                  /\ (prune # NULL => current_time > prune)
             THEN <<time_str>> \o rest
             ELSE rest

(* the while loop of get_available_times, from current_time on *)
RECURSIVE SlotLoop(_, _, _, _, _, _)
SlotLoop(current_time, end_time, break_start, break_end, busy_times, prune) ==
    IF ~(current_time < end_time) THEN <<>>
    ELSE LET time_str == StrfTime(current_time)
             rest == SlotLoop(current_time + 30, end_time, break_start,
                              break_end, busy_times, prune)
         IN  IF break_start <= current_time /\ current_time < break_end
             THEN rest
             ELSE IF time_str \notin busy_times
                       /\ (prune # NULL => current_time > prune)
                  THEN <<time_str>> \o rest
                  ELSE rest

(* faulty variant: rows of every status make a time busy *)
get_available_times_any_status(tbl, date_str, exclude_appointment_id, day, now) ==
    LET target_date == StrpDmy(date_str)
    IN  IF target_date = NULL THEN <<>>
        ELSE IF target_date < day THEN <<>>
        ELSE
          LET busy_times ==
                  {tbl[i].appointment_time : i \in
                      {j \in Ids(tbl) :
                          /\ tbl[j].appointment_date = IsoDate(target_date)
                          /\ (Truthy(exclude_appointment_id)
                                 => j # exclude_appointment_id)}}
          IN  SlotLoop(HourMinute(WORKING_HOURS.start),
                       HourMinute(WORKING_HOURS.end),
                       HourMinute(WORKING_HOURS.break_start),
                       HourMinute(WORKING_HOURS.break_end),
                       busy_times,
                       IF target_date = day THEN now ELSE NULL)

(* faulty variant: without the early return for a date in the past *)
get_available_times_of_past_dates(tbl, date_str, exclude_appointment_id, day, now) ==
    LET target_date == StrpDmy(date_str)
    IN  IF target_date = NULL THEN <<>>
        ELSE
          LET busy_times ==
                  {tbl[i].appointment_time : i \in
                      {j \in ActiveIds(tbl) :
                          /\ tbl[j].appointment_date = IsoDate(target_date)
                          /\ (Truthy(exclude_appointment_id)
                                 => j # exclude_appointment_id)}}
          IN  SlotLoop(HourMinute(WORKING_HOURS.start),
                       HourMinute(WORKING_HOURS.end),
                       HourMinute(WORKING_HOURS.break_start),
                       HourMinute(WORKING_HOURS.break_end),
                       busy_times,
                       IF target_date = day THEN now ELSE NULL)

(* get_available_times with the clock made explicit: day is                *)
(* datetime.now().date() and now is datetime.now().time() in minutes       *)
get_available_times(tbl, date_str, exclude_appointment_id, day, now) ==
    LET target_date == StrpDmy(date_str)
    IN  IF target_date = NULL THEN <<>>
        ELSE IF target_date < day THEN <<>>
        ELSE
          LET busy_times ==
                  {tbl[i].appointment_time : i \in
                      {j \in ActiveIds(tbl) :
                          /\ tbl[j].appointment_date = IsoDate(target_date)
                          /\ (Truthy(exclude_appointment_id)
                                 => j # exclude_appointment_id)}}
          IN  SlotLoop(HourMinute(WORKING_HOURS.start),
                       HourMinute(WORKING_HOURS.end),
                       HourMinute(WORKING_HOURS.break_start),
                       HourMinute(WORKING_HOURS.break_end),
                       busy_times,
                       IF target_date = day THEN now ELSE NULL)

Range(seq) == {seq[i] : i \in 1..Len(seq)}

(* the ids of the rows get_client_appointments returns: the user's active   *)
(* appointments from today on                                               *)
get_client_appointments(tbl, telegram_user_id, day) ==
    {i \in ActiveIds(tbl) :
        /\ SqlEq(tbl[i].telegram_user_id, telegram_user_id)
        /\ ~DateLess(tbl[i].appointment_date, IsoDate(day))}

-----------------------------------------------------------------------------
(* Validation (src/utils.py) *)

validate_time_format(time_str) ==
    LET time_parts == SplitColon(time_str)
    IN  /\ Len(time_parts) = 2
        /\ IntOf(time_parts[1]) # NULL
        /\ IntOf(time_parts[2]) # NULL
        /\ 0 <= IntOf(time_parts[1]) /\ IntOf(time_parts[1]) <= 23
        /\ 0 <= IntOf(time_parts[2]) /\ IntOf(time_parts[2]) <= 59

validate_client_name(name) == Len(name) >= 2

-----------------------------------------------------------------------------
(* Writes.  Each operator is one function of src/database.py run to its     *)
(* return on its own connection: the tables it leaves committed and the     *)
(* value it returns (None is NULL for an id).                               *)

Outcome(tbl, cl, result) == [appointments |-> tbl, clients |-> cl, result |-> result]

(* register_or_update_client.  locked: another connection holds SQLite's    *)
(* write lock, so the UPDATE / INSERT raises "database is locked" after the *)
(* busy timeout, which the except branch turns into False.                  *)
register_or_update_client(cl, telegram_user_id, name, phone, day, locked) ==
    IF locked \/ telegram_user_id \notin DOMAIN cl
    THEN [clients |-> cl, result |-> FALSE]
    ELSE IF cl[telegram_user_id] # NoClient
    THEN [clients |-> [cl EXCEPT ![telegram_user_id].name = name,
                                 ![telegram_user_id].phone = phone,
                                 ![telegram_user_id].last_visit = day],
          result |-> TRUE]
    ELSE [clients |-> [cl EXCEPT ![telegram_user_id] =
                          [name |-> name, phone |-> phone, first_visit |-> day,
                           last_visit |-> day, total_visits |-> 0]],
          result |-> TRUE]

(* UPDATE clients SET total_visits = total_visits + 1 WHERE telegram_user_id = ? *)
IncrementVisits(cl, telegram_user_id) ==
    IF telegram_user_id \in DOMAIN cl /\ cl[telegram_user_id] # NoClient
    THEN [cl EXCEPT ![telegram_user_id].total_visits = @ + 1]
    ELSE cl

(* faulty variant: the INSERT without the conflict check before it *)
book_appointment_unchecked(tbl, cl, telegram_user_id, client_name, appointment_date, appointment_time, service, phone, day) ==
    LET inserted == Append(tbl, Row(client_name, telegram_user_id, phone,
                                    appointment_date, appointment_time,
                                    service, "active"))
        registered == register_or_update_client(cl, telegram_user_id,
                                                client_name, phone, day, TRUE)
    IN  Outcome(inserted,
                IncrementVisits(registered.clients, telegram_user_id),
                Len(inserted))

(* book_appointment from "if conflict:" on, given what check_time_conflict  *)
(* returned (<<>>: None).  The INSERT opens the write transaction of conn,  *)
(* so the nested register_or_update_client, on a second connection, finds   *)
(* the database locked.                                                     *)
book_appointment_after(conflict, tbl, cl, telegram_user_id, client_name, appointment_date, appointment_time, service, phone, day) ==
    IF conflict # <<>> THEN Outcome(tbl, cl, NULL)
    ELSE LET inserted == Append(tbl, Row(client_name, telegram_user_id, phone,
                                          appointment_date, appointment_time,
                                          service, "active"))
             registered == register_or_update_client(cl, telegram_user_id,
                                                     client_name, phone, day, TRUE)
         IN  Outcome(inserted,
                     IncrementVisits(registered.clients, telegram_user_id),
                     Len(inserted))

book_appointment(tbl, cl, telegram_user_id, client_name, appointment_date, appointment_time, service, phone, day) ==
    book_appointment_after(check_time_conflict(tbl, appointment_time, appointment_date, NULL),
                           tbl, cl, telegram_user_id, client_name, appointment_date,
                           appointment_time, service, phone, day)

(* add_appointment: as book_appointment, the client touched only for a      *)
(* truthy telegram_user_id and no visit counted                             *)
add_appointment(tbl, cl, client_name, appointment_date, appointment_time, service, telegram_user_id, phone, day) ==
    LET conflict == check_time_conflict(tbl, appointment_time, appointment_date, NULL)
    IN  IF conflict # <<>> THEN Outcome(tbl, cl, NULL)
        ELSE LET inserted == Append(tbl, Row(client_name, telegram_user_id, phone,
                                              appointment_date, appointment_time,
                                              service, "active"))
                 registered ==
                     IF Truthy(telegram_user_id)
                     THEN register_or_update_client(cl, telegram_user_id,
                                                    client_name, phone, day, TRUE)
                     ELSE [clients |-> cl, result |-> FALSE]
             IN  Outcome(inserted, registered.clients, Len(inserted))

(* the rows an UPDATE ... WHERE id = ? [AND telegram_user_id = ?] AND       *)
(* status = 'active' matches                                                *)
ActiveRowOf(tbl, appointment_id) ==
    HasId(tbl, appointment_id) /\ tbl[appointment_id].status = "active"

(* faulty variant: the UPDATE without "AND telegram_user_id = ?" *)
cancel_appointment_of_anyone(tbl, cl, appointment_id, telegram_user_id) ==
    IF ActiveRowOf(tbl, appointment_id)
    THEN Outcome([tbl EXCEPT ![appointment_id].status = "cancelled_by_client"], cl, TRUE)
    ELSE Outcome(tbl, cl, FALSE)

cancel_appointment_by_client(tbl, cl, appointment_id, telegram_user_id) ==
    IF /\ ActiveRowOf(tbl, appointment_id)
       /\ SqlEq(tbl[appointment_id].telegram_user_id, telegram_user_id)
    THEN Outcome([tbl EXCEPT ![appointment_id].status = "cancelled_by_client"], cl, TRUE)
    ELSE Outcome(tbl, cl, FALSE)

(* faulty variant: the WHERE clause without "AND status = 'active'" *)
RescheduleMatchesAnyStatus(tbl, appointment_id, telegram_user_id) ==
    /\ HasId(tbl, appointment_id)
    /\ (Truthy(telegram_user_id)
          => SqlEq(tbl[appointment_id].telegram_user_id, telegram_user_id))

(* the WHERE clause reschedule_appointment chooses for its UPDATE *)
RescheduleMatches(tbl, appointment_id, telegram_user_id) ==
    IF Truthy(telegram_user_id)
    THEN /\ ActiveRowOf(tbl, appointment_id)
         /\ SqlEq(tbl[appointment_id].telegram_user_id, telegram_user_id)
    ELSE ActiveRowOf(tbl, appointment_id)

(* faulty variant: the UPDATE without the conflict check before it *)
reschedule_appointment_unchecked(tbl, cl, appointment_id, new_date, new_time, telegram_user_id) ==
    IF RescheduleMatches(tbl, appointment_id, telegram_user_id)
    THEN Outcome([tbl EXCEPT ![appointment_id].appointment_date = new_date,
                              ![appointment_id].appointment_time = new_time],
                 cl, TRUE)
    ELSE Outcome(tbl, cl, FALSE)

(* faulty variant: the UPDATE also hands the row to the requester *)
reschedule_appointment_taking_over(tbl, cl, appointment_id, new_date, new_time, telegram_user_id) ==
    LET conflict == check_time_conflict(tbl, new_time, new_date, appointment_id)
    IN  IF conflict # <<>> THEN Outcome(tbl, cl, FALSE)
        ELSE IF RescheduleMatches(tbl, appointment_id, telegram_user_id)
        THEN Outcome([tbl EXCEPT ![appointment_id].appointment_date = new_date,
                                 ![appointment_id].appointment_time = new_time,
                                 ![appointment_id].telegram_user_id = telegram_user_id],
                     cl, TRUE)
        ELSE Outcome(tbl, cl, FALSE)

reschedule_appointment(tbl, cl, appointment_id, new_date, new_time, telegram_user_id) ==
    LET conflict == check_time_conflict(tbl, new_time, new_date, appointment_id)
    IN  IF conflict # <<>> THEN Outcome(tbl, cl, FALSE)
        ELSE IF RescheduleMatches(tbl, appointment_id, telegram_user_id)
        THEN Outcome([tbl EXCEPT ![appointment_id].appointment_date = new_date,
                                 ![appointment_id].appointment_time = new_time],
                     cl, TRUE)
        ELSE Outcome(tbl, cl, FALSE)

(* faulty variant: the last row is removed from the table, not flagged *)
delete_appointment_removing_row(tbl, cl, appointment_id) ==
    IF ActiveRowOf(tbl, appointment_id)
    THEN IF appointment_id = Len(tbl)
         THEN Outcome(SubSeq(tbl, 1, Len(tbl) - 1), cl, TRUE)
         ELSE Outcome([tbl EXCEPT ![appointment_id].status = "deleted"], cl, TRUE)
    ELSE Outcome(tbl, cl, FALSE)

delete_appointment(tbl, cl, appointment_id) ==
    IF ActiveRowOf(tbl, appointment_id)
    THEN Outcome([tbl EXCEPT ![appointment_id].status = "deleted"], cl, TRUE)
    ELSE Outcome(tbl, cl, FALSE)

(* faulty variant: success reported whether or not a row matched *)
update_appointment_time_reporting_success(tbl, cl, appointment_id, new_time) ==
    IF ActiveRowOf(tbl, appointment_id)
    THEN Outcome([tbl EXCEPT ![appointment_id].appointment_time = new_time], cl, TRUE)
    ELSE Outcome(tbl, cl, TRUE)

update_appointment_time(tbl, cl, appointment_id, new_time) ==
    IF ActiveRowOf(tbl, appointment_id)
    THEN Outcome([tbl EXCEPT ![appointment_id].appointment_time = new_time], cl, TRUE)
    ELSE Outcome(tbl, cl, FALSE)

(* faulty variant: the UPDATE without "AND status = 'active'" *)
update_appointment_client_any_status(tbl, cl, appointment_id, new_client_name) ==
    IF HasId(tbl, appointment_id)
    THEN Outcome([tbl EXCEPT ![appointment_id].client_name = new_client_name], cl, TRUE)
    ELSE Outcome(tbl, cl, FALSE)

update_appointment_client(tbl, cl, appointment_id, new_client_name) ==
    IF ActiveRowOf(tbl, appointment_id)
    THEN Outcome([tbl EXCEPT ![appointment_id].client_name = new_client_name], cl, TRUE)
    ELSE Outcome(tbl, cl, FALSE)

update_appointment_service(tbl, cl, appointment_id, new_service) ==
    IF ActiveRowOf(tbl, appointment_id)
    THEN Outcome([tbl EXCEPT ![appointment_id].service = new_service], cl, TRUE)
    ELSE Outcome(tbl, cl, FALSE)

(* faulty variant: the sweep without its status filter *)
StaleOfAnyStatus(tbl, day, days_old) ==
    {i \in Ids(tbl) : DateLess(tbl[i].appointment_date, IsoDate(day - days_old))}

(* faulty variant: the sweep matches archived rows again *)
StaleOrArchived(tbl, day, days_old) ==
    {i \in Ids(tbl) :
        /\ DateLess(tbl[i].appointment_date, IsoDate(day - days_old))
        /\ tbl[i].status \in {"cancelled_by_client", "deleted", "archived"}}

(* the rows cleanup_old_appointments flips: older than the cutoff and       *)
(* cancelled or deleted                                                     *)
Stale(tbl, day, days_old) ==
    {i \in Ids(tbl) :
        /\ DateLess(tbl[i].appointment_date, IsoDate(day - days_old))
        /\ tbl[i].status \in {"cancelled_by_client", "deleted"}}

(* faulty variant: the sweep takes the rows of the cutoff day as well *)
cleanup_old_appointments_through_cutoff(tbl, cl, day, days_old) ==
    LET swept == {i \in Ids(tbl) :
                     /\ ~DateLess(IsoDate(day - days_old), tbl[i].appointment_date)
                     /\ tbl[i].status \in {"cancelled_by_client", "deleted"}}
    IN  Outcome([i \in Ids(tbl) |->
                    IF i \in swept THEN [tbl[i] EXCEPT !.status = "archived"]
                    ELSE tbl[i]],
                cl, Cardinality(swept))

(* faulty variant: the sweep archives by age alone *)
cleanup_old_appointments_by_age(tbl, cl, day, days_old) ==
    Outcome([i \in Ids(tbl) |->
                IF DateLess(tbl[i].appointment_date, IsoDate(day - days_old))
                THEN [tbl[i] EXCEPT !.status = "archived"]
                ELSE tbl[i]],
            cl, Cardinality(Stale(tbl, day, days_old)))

(* cleanup_old_appointments; its result is cursor.rowcount *)
cleanup_old_appointments(tbl, cl, day, days_old) ==
    Outcome([i \in Ids(tbl) |->
                IF i \in Stale(tbl, day, days_old)
                THEN [tbl[i] EXCEPT !.status = "archived"]
                ELSE tbl[i]],
            cl, Cardinality(Stale(tbl, day, days_old)))

-----------------------------------------------------------------------------
(* Inputs of the calls *)

Users == {1, 2}                          \* telegram ids of two clients
ADMIN_ID == 9                            \* telegram id of the administrator
OwnerInputs == {NULL} \cup Users         \* telegram_user_id of a new row
RefInputs == {NULL, 0} \cup Users        \* telegram_user_id of a requester
IdInputs == 1..(MaxAppts + 1)            \* appointment ids, the last of no row
DateInputs == {IsoDate(d) : d \in 1..MaxDay}
TimeInputs == {StrfTime(540), StrfTime(570)}
NameInputs == {"Anna", "Bob"}
ServiceInputs == {"Haircut", "Manicure"}
AgeInputs == {0, 1}                      \* days_old of the retention sweep

NoDate == <<>>
NoTime == <<>>

(* the call just made: its name, the appointment id it was given (0: none), *)
(* the id or count it returned (NULL: None) and whether it succeeded        *)
Ev(op, id, rid, ok) == [op |-> op, id |-> id, rid |-> rid, ok |-> ok]

(* a call in flight on its own connections: its arguments, what its        *)
(* conflict check read, and its result once it has returned                *)
InFlight(op, id, ref, date, time) ==
    [op |-> op, id |-> id, ref |-> ref, date |-> date, time |-> time,
     conflict |-> FALSE, rid |-> NULL, ok |-> FALSE]

NoCall == InFlight("none", 0, NULL, NoDate, NoTime)

(* a user's FSMContext after state.clear(): no state and no data.  id is   *)
(* the data key reschedule_appointment_id (for the administrator           *)
(* appointment_id), date the key new_date; the other fields are the keys   *)
(* of a booking or an addition in progress, <<>> for a key not set         *)
Cleared ==
    [state |-> "None", id |-> NULL, date |-> NoDate, client_name |-> <<>>,
     appointment_date |-> NoDate, appointment_time |-> NoTime, service |-> <<>>]

Init ==
    /\ appointments = <<>>
    /\ clients = [u \in Users |-> NoClient]
    /\ today = 1
    /\ last = Ev("init_database", 0, NULL, TRUE)
    /\ phase = "seq"
    /\ pc = [p \in Procs |-> "idle"]
    /\ call = [p \in Procs |-> NoCall]
    /\ writer = NoProc
    /\ fsm = [u \in Users \cup {ADMIN_ID} |-> Cleared]

-----------------------------------------------------------------------------
(* Storage faults.  A call meets at most one sqlite3.Error: when it opens    *)
(* its connection, when it executes a statement, or when it commits.         *)

FaultPoints == {"none", "connect", "execute", "commit"}

(* faulty variant: the rows written before the fault stay written *)
FaultedAfterWrite(tbl, cl, o, fault, failure, guarded) ==
    IF fault = "none"
    THEN [appointments |-> o.appointments, clients |-> o.clients,
          result |-> o.result, raised |-> FALSE]
    ELSE IF fault = "connect" /\ ~guarded
    THEN [appointments |-> tbl, clients |-> cl, result |-> failure, raised |-> TRUE]
    ELSE IF fault = "commit"
    THEN [appointments |-> o.appointments, clients |-> o.clients,
          result |-> failure, raised |-> FALSE]
    ELSE [appointments |-> tbl, clients |-> cl, result |-> failure, raised |-> FALSE]

(* what a Store function makes of a fault.  o is its outcome without fault, *)
(* failure the value its except branch returns.  sqlite3.connect stands     *)
(* before the try (guarded = FALSE) in every function but                   *)
(* get_available_times, so its error leaves the function as an exception;   *)
(* an error inside the try is caught, nothing is committed, and the         *)
(* rollback or the close of the connection discards what was written.       *)
Faulted(tbl, cl, o, fault, failure, guarded) ==
    IF fault = "none"
    THEN [appointments |-> o.appointments, clients |-> o.clients,
          result |-> o.result, raised |-> FALSE]
    ELSE IF fault = "connect" /\ ~guarded
    THEN [appointments |-> tbl, clients |-> cl, result |-> failure, raised |-> TRUE]
    ELSE [appointments |-> tbl, clients |-> cl, result |-> failure, raised |-> FALSE]

-----------------------------------------------------------------------------
(* Store calls run one at a time *)

Commit(o, ev) ==
    /\ phase = "seq"
    /\ Len(o.appointments) <= MaxAppts
    /\ appointments' = o.appointments
    /\ clients' = o.clients
    /\ last' = ev
    /\ UNCHANGED <<today, phase, pc, call, writer, fsm>>

BookAppointment(u, name, d, t, s) ==
    LET o == book_appointment(appointments, clients, u, name, d, t, s, NoPhone, today)
    IN  Commit(o, Ev("book_appointment", 0, o.result, o.result # NULL))

AddAppointment(u, name, d, t, s) ==
    LET o == add_appointment(appointments, clients, name, d, t, s, u, NoPhone, today)
    IN  Commit(o, Ev("add_appointment", 0, o.result, o.result # NULL))

CancelAppointmentByClient(id, u) ==
    LET o == cancel_appointment_by_client(appointments, clients, id, u)
    IN  Commit(o, Ev("cancel_appointment_by_client", id, NULL, o.result))

RescheduleAppointment(id, d, t, u) ==
    LET o == reschedule_appointment(appointments, clients, id, d, t, u)
    IN  Commit(o, Ev("reschedule_appointment", id, NULL, o.result))

DeleteAppointment(id) ==
    LET o == delete_appointment(appointments, clients, id)
    IN  Commit(o, Ev("delete_appointment", id, NULL, o.result))

UpdateAppointmentTime(id, t) ==
    LET o == update_appointment_time(appointments, clients, id, t)
    IN  Commit(o, Ev("update_appointment_time", id, NULL, o.result))

UpdateAppointmentClient(id, name) ==
    LET o == update_appointment_client(appointments, clients, id, name)
    IN  Commit(o, Ev("update_appointment_client", id, NULL, o.result))

UpdateAppointmentService(id, s) ==
    LET o == update_appointment_service(appointments, clients, id, s)
    IN  Commit(o, Ev("update_appointment_service", id, NULL, o.result))

CleanupOldAppointments(days_old) ==
    LET o == cleanup_old_appointments(appointments, clients, today, days_old)
    IN  Commit(o, Ev("cleanup_old_appointments", 0, o.result, TRUE))

(* standalone call: no other connection holds the write lock *)
RegisterOrUpdateClient(u, name) ==
    LET r == register_or_update_client(clients, u, name, NoPhone, today, FALSE)
    IN  Commit(Outcome(appointments, r.clients, r.result),
               Ev("register_or_update_client", 0, NULL, r.result))

(* a call of get_available_times at clock time now; the answer is kept with  *)
(* the question                                                             *)
GetAvailableTimes(date_str, exclude_appointment_id, now) ==
    /\ phase = "seq"
    /\ last' = Ev("get_available_times", exclude_appointment_id,
                  [date |-> date_str, now |-> now,
                   result |-> get_available_times(appointments, date_str,
                                                  exclude_appointment_id, today, now)],
                  TRUE)
    /\ UNCHANGED <<appointments, clients, today, phase, pc, call, writer, fsm>>

(* a call of the Store function op that meets the fault; the event keeps    *)
(* what the caller got: the value returned, or the exception                *)
FaultyCall(op, id, o, fault, failure, guarded) ==
    LET f == Faulted(appointments, clients, o, fault, failure, guarded)
    IN  Commit(f, Ev(op, id,
                     [result |-> f.result, raised |-> f.raised, fault |-> fault],
                     ~f.raised /\ f.result # failure))

(* midnight passes *)
NewDay ==
    /\ phase = "seq"
    /\ today < MaxDay
    /\ today' = today + 1
    /\ last' = Ev("new_day", 0, NULL, TRUE)
    /\ UNCHANGED <<appointments, clients, phase, pc, call, writer, fsm>>

-----------------------------------------------------------------------------
(* Spec: the booking lifecycle.  Clients book, move and cancel, the          *)
(* administrator adds, moves and deletes, the retention sweep archives.      *)

Book == \E u \in OwnerInputs, d \in DateInputs, t \in TimeInputs :
            BookAppointment(u, "Anna", d, t, "Haircut")

Add == \E d \in DateInputs, t \in TimeInputs :
           AddAppointment(NULL, "Anna", d, t, "Haircut")

Cancel == \E id \in IdInputs, u \in RefInputs : CancelAppointmentByClient(id, u)

Reschedule == \E id \in IdInputs, d \in DateInputs, t \in TimeInputs, u \in RefInputs :
                  RescheduleAppointment(id, d, t, u)

Delete == \E id \in IdInputs : DeleteAppointment(id)

Cleanup == \E a \in AgeInputs : CleanupOldAppointments(a)

Next ==
    \/ Book
    \/ Add
    \/ Cancel
    \/ Reschedule
    \/ Delete
    \/ Cleanup
    \/ NewDay

Spec == Init /\ [][Next]_vars

-----------------------------------------------------------------------------
(* SpecClients: bookings next to a clients table that standalone calls of   *)
(* register_or_update_client fill.                                          *)

ClientDate == IsoDate(1)

Register == \E u \in Users, n \in NameInputs : RegisterOrUpdateClient(u, n)

BookForClient == \E u \in Users, n \in NameInputs, t \in TimeInputs :
                     BookAppointment(u, n, ClientDate, t, "Haircut")

NextClients ==
    \/ Register
    \/ BookForClient
    \/ Delete

SpecClients == Init /\ [][NextClients]_vars

-----------------------------------------------------------------------------
(* SpecRoundTrip: bookings and moves of one client over the whole day,      *)
(* the lunch break included, while the clock advances.                      *)

RoundTripTimes == TimeInputs \cup {StrfTime(780)}

(* datetime.now().time() at the moment get_available_times runs, in minutes *)
NowInputs == {0, 540, 555}
QueryDates == {DmyDate(d) : d \in 0..(MaxDay + 1)} \cup {IsoDate(1)}
ExcludeInputs == {NULL, 0, 1}

BookRoundTrip == \E d \in DateInputs, t \in RoundTripTimes :
                     BookAppointment(1, "Anna", d, t, "Haircut")

RescheduleRoundTrip ==
    \E id \in IdInputs, d \in DateInputs, t \in RoundTripTimes :
        RescheduleAppointment(id, d, t, NULL)

NextRoundTrip ==
    \/ BookRoundTrip
    \/ RescheduleRoundTrip
    \/ NewDay

SpecRoundTrip == Init /\ [][NextRoundTrip]_vars

-----------------------------------------------------------------------------
(* SpecStore: every write operation of the Store, called in any order by    *)
(* one caller at a time.                                                    *)

StoreBook == \E d \in DateInputs, t \in TimeInputs :
                 BookAppointment(1, "Anna", d, t, "Haircut")

StoreAdd == \E d \in DateInputs, t \in TimeInputs :
                AddAppointment(1, "Anna", d, t, "Haircut")

StoreCancel == \E id \in IdInputs, u \in Users : CancelAppointmentByClient(id, u)

StoreReschedule == \E id \in IdInputs, d \in DateInputs, t \in TimeInputs, u \in {NULL, 2} :
                       RescheduleAppointment(id, d, t, u)

StoreUpdateTime == \E id \in IdInputs, t \in TimeInputs : UpdateAppointmentTime(id, t)

StoreUpdateClient == \E id \in IdInputs : UpdateAppointmentClient(id, "Bob")

StoreUpdateService == \E id \in IdInputs : UpdateAppointmentService(id, "Manicure")

NextStore ==
    \/ StoreBook
    \/ StoreAdd
    \/ StoreCancel
    \/ StoreReschedule
    \/ Delete
    \/ StoreUpdateTime
    \/ StoreUpdateClient
    \/ StoreUpdateService
    \/ Cleanup
    \/ NewDay

SpecStore == Init /\ [][NextStore]_vars

-----------------------------------------------------------------------------
(* SpecRace: two callers on connections of their own.  A call is no longer  *)
(* one step: check_time_conflict reads on a connection it opens and closes, *)
(* the INSERT or UPDATE then takes SQLite's write lock on the caller's      *)
(* connection, and conn.commit() publishes the write and frees the lock.    *)
(* A statement that finds the lock taken waits for it and, after the busy   *)
(* timeout, raises "database is locked", which the except branch turns into *)
(* the failure value.  The table is first filled by calls run one at a time.*)

ProcUser(p) == IF p = "p1" THEN 1 ELSE 2

SetupBook == \E d \in DateInputs, t \in TimeInputs :
                 BookAppointment(1, "Anna", d, t, "Haircut")

(* the callers start; last.rid keeps the table as it is then *)
StartRace ==
    /\ phase = "seq"
    /\ phase' = "race"
    /\ last' = Ev("start_race", 0, appointments, TRUE)
    /\ UNCHANGED <<appointments, clients, today, pc, call, writer, fsm>>

RaceStep(p, at, c) ==
    /\ phase = "race"
    /\ pc' = [pc EXCEPT ![p] = at]
    /\ call' = [call EXCEPT ![p] = c]
    /\ UNCHANGED <<clients, today, last, phase, fsm>>

(* book_appointment(ProcUser(p), "Anna", d, t, "Haircut") is called *)
BeginBook(p, d, t) ==
    /\ pc[p] = "idle"
    /\ RaceStep(p, "called", InFlight("book_appointment", 0, ProcUser(p), d, t))
    /\ UNCHANGED <<appointments, writer>>

(* reschedule_appointment(id, d, t) is called, by the administrator *)
BeginReschedule(p, id, d, t) ==
    /\ pc[p] = "idle"
    /\ RaceStep(p, "called", InFlight("reschedule_appointment", id, NULL, d, t))
    /\ UNCHANGED <<appointments, writer>>

(* conflict = check_time_conflict(...); a conflict returns at once *)
CheckConflict(p) ==
    /\ pc[p] = "called"
    /\ LET c == call[p]
           conflict == check_time_conflict(appointments, c.time, c.date,
                           IF c.op = "reschedule_appointment" THEN c.id ELSE NULL)
       IN  IF conflict # <<>>
           THEN RaceStep(p, "done", [c EXCEPT !.conflict = TRUE])
           ELSE RaceStep(p, "checked", c)
    /\ UNCHANGED <<appointments, writer>>

(* cursor.execute(INSERT / UPDATE): the write lock is free and is taken *)
ExecuteWrite(p) ==
    /\ pc[p] = "checked"
    /\ writer = NoProc
    /\ writer' = p
    /\ RaceStep(p, "written", call[p])
    /\ UNCHANGED appointments

(* cursor.execute(INSERT / UPDATE): the lock stays taken past the timeout *)
LockTimeout(p) ==
    /\ pc[p] = "checked"
    /\ writer \notin {NoProc, p}
    /\ RaceStep(p, "done", call[p])
    /\ UNCHANGED <<appointments, writer>>

(* the rest of the call up to conn.commit() and the return *)
CommitWrite(p) ==
    /\ pc[p] = "written"
    /\ writer = p
    /\ writer' = NoProc
    /\ LET c == call[p]
       IN  IF c.op = "book_appointment"
           THEN /\ appointments' =
                       Append(appointments,
                              Row("Anna", c.ref, NoPhone, c.date, c.time,
                                  "Haircut", "active"))
                /\ RaceStep(p, "done", [c EXCEPT !.rid = Len(appointments) + 1,
                                                   !.ok = TRUE])
           ELSE IF RescheduleMatches(appointments, c.id, c.ref)
           THEN /\ appointments' =
                       [appointments EXCEPT ![c.id].appointment_date = c.date,
                                            ![c.id].appointment_time = c.time]
                /\ RaceStep(p, "done", [c EXCEPT !.ok = TRUE])
           ELSE /\ appointments' = appointments
                /\ RaceStep(p, "done", c)

NextRace ==
    \/ SetupBook
    \/ StartRace
    \/ \E p \in Procs, d \in DateInputs, t \in TimeInputs : BeginBook(p, d, t)
    \/ \E p \in Procs, id \in IdInputs, d \in DateInputs, t \in TimeInputs :
           BeginReschedule(p, id, d, t)
    \/ \E p \in Procs : CheckConflict(p)
    \/ \E p \in Procs : ExecuteWrite(p)
    \/ \E p \in Procs : LockTimeout(p)
    \/ \E p \in Procs : CommitWrite(p)

SpecRace == Init /\ [][NextRace]_vars

-----------------------------------------------------------------------------
(* SpecDialogue: the clients' side of src/handlers.py.  A handler runs to   *)
(* its end without interruption: safe_database_operation never suspends,    *)
(* so an event is one step.  The events are what a client can send: a text  *)
(* in the state the FSM is in, or a callback with any data, whatever        *)
(* keyboard it was shown.  Appointments appear through Store calls.         *)

(* an id as text: NULL stands for a text that is not all digits *)
IdTexts == IdInputs \cup {NULL}
(* yesterday, the day of the bookings, and a text in the wrong format *)
DateTexts == {DmyDate(0), DmyDate(1), IsoDate(1)}
TimeTexts == TimeInputs \cup {<<"9", ":", "3", "0">>, <<"9", "3", "0">>}
NameTexts == {<<"A", "n", "n", "a">>, <<"A">>}

(* FSM contexts are per user and independent; the model lets one client    *)
(* at a time be inside a dialogue                                          *)
Exclusive(u) == \A v \in DOMAIN fsm \ {u} : fsm[v] = Cleared

Event(u, tbl, f, ev) ==
    /\ phase = "seq"
    /\ Exclusive(u)
    /\ appointments' = tbl
    /\ fsm' = [fsm EXCEPT ![u] = f]
    /\ last' = ev
    /\ UNCHANGED <<clients, today, phase, pc, call, writer>>

Ignored(u) == Event(u, appointments, fsm[u], last)

(* "client_book_new", or the menu text outside any state *)
StartClientBooking(u) ==
    Event(u, appointments, [fsm[u] EXCEPT !.state = "waiting_for_name"], last)

HandleClientNameInput(u, text) ==
    /\ fsm[u].state = "waiting_for_name"
    /\ IF ~validate_client_name(text) THEN Ignored(u)
       ELSE Event(u, appointments, [fsm[u] EXCEPT !.state = "waiting_for_date"], last)

HandleClientDateInput(u, text) ==
    /\ fsm[u].state = "waiting_for_date"
    /\ LET target_date == StrpDmy(text)
       IN  IF target_date = NULL \/ target_date < today THEN Ignored(u)
           ELSE Event(u, appointments, fsm[u], last)

(* "client_select_time_<time>_<date>", "client_select_service_<service>":   *)
(* state.update_data of a booking key                                       *)
SelectBookingData(u) == Ignored(u)

(* "client_confirm_booking": booking_data[...] raises KeyError on a missing *)
(* key, whatever was stored; with all keys set book_appointment is called   *)
(* with seven arguments, raises TypeError, and safe_database_operation      *)
(* returns None                                                             *)
ConfirmBooking(u) ==
    \/ Ignored(u)
    \/ Event(u, appointments, Cleared, Ev("client_confirm_booking", 0, u, FALSE))

(* "client_main_menu", "client_cancel_booking", "client_keep_appointment" *)
ClearState(u) == Event(u, appointments, Cleared, last)

(* the menu text "Перенести запись" outside any state *)
StartClientReschedule(u) ==
    /\ fsm[u].state = "None"
    /\ IF get_client_appointments(appointments, u, today) = {} THEN Ignored(u)
       ELSE Event(u, appointments,
                  [fsm[u] EXCEPT !.state = "reschedule_selection"], last)

(* the menu text "Отменить запись" outside any state *)
StartClientCancel(u) ==
    /\ fsm[u].state = "None"
    /\ IF get_client_appointments(appointments, u, today) = {} THEN Ignored(u)
       ELSE Event(u, appointments,
                  [fsm[u] EXCEPT !.state = "cancel_selection"], last)

(* the appointment is there and its owner column, NULL read as 0, is u *)
OwnedBy(tbl, id, u) ==
    LET appointment_info == get_appointment_by_id(tbl, id)
    IN  appointment_info # <<>> /\ appointment_info[5] = u

HandleClientRescheduleSelection(u, id) ==
    /\ fsm[u].state = "reschedule_selection"
    /\ IF id = NULL \/ ~OwnedBy(appointments, id, u) THEN Ignored(u)
       ELSE Event(u, appointments,
                  [fsm[u] EXCEPT !.id = id, !.state = "waiting_for_new_date"], last)

(* "client_reschedule_<id>" *)
StartRescheduleProcess(u, id) ==
    IF id = NULL \/ ~OwnedBy(appointments, id, u) THEN Ignored(u)
    ELSE Event(u, appointments,
               [fsm[u] EXCEPT !.id = id, !.state = "waiting_for_new_date"], last)

HandleClientRescheduleDate(u, text, now) ==
    /\ fsm[u].state = "waiting_for_new_date"
    /\ LET target_date == StrpDmy(text)
       IN  IF target_date = NULL \/ target_date < today THEN Ignored(u)
           ELSE IF get_available_times(appointments, text, fsm[u].id, today, now) = <<>>
           THEN Ignored(u)
           ELSE Event(u, appointments,
                      [fsm[u] EXCEPT !.date = IsoDate(target_date),
                                     !.state = "waiting_for_new_time"], last)

HandleClientRescheduleTime(u, text, now) ==
    /\ fsm[u].state = "waiting_for_new_time"
    /\ LET appointment_id == fsm[u].id
           new_date == fsm[u].date
           o == reschedule_appointment(appointments, clients, appointment_id,
                                       new_date, text, u)
       IN  IF ~validate_time_format(text) THEN Ignored(u)
           ELSE IF get_appointment_by_id(appointments, appointment_id) = <<>>
           THEN Event(u, appointments, Cleared, last)
           ELSE IF text \notin Range(get_available_times(appointments,
                                         DmyDate(new_date[2]), appointment_id,
                                         today, now))
           THEN Ignored(u)
           ELSE Event(u, o.appointments, Cleared,
                      Ev("reschedule_appointment", appointment_id, u, o.result))

(* faulty variant: the appointment cancelled as soon as it is selected,     *)
(* before the confirmation                                                  *)
HandleClientCancelSelectionCancellingAtOnce(u, id) ==
    /\ fsm[u].state = "cancel_selection"
    /\ IF id = NULL \/ ~OwnedBy(appointments, id, u) THEN Ignored(u)
       ELSE Event(u, cancel_appointment_by_client(appointments, clients, id, u).appointments,
                  Cleared, last)

HandleClientCancelSelection(u, id) ==
    /\ fsm[u].state = "cancel_selection"
    /\ IF id = NULL \/ ~OwnedBy(appointments, id, u) THEN Ignored(u)
       ELSE Event(u, appointments, Cleared, last)

(* "client_cancel_<id>": shows the confirmation keyboard or a refusal *)
StartCancelProcess(u, id) == Ignored(u)

(* faulty variant: the confirmation handled with the administrator's       *)
(* delete_appointment, which asks for no owner                              *)
ConfirmCancelAsAdministrator(u, id) ==
    LET o == delete_appointment(appointments, clients, id)
    IN  Event(u, o.appointments, Cleared,
              Ev("cancel_appointment_by_client", id, u, o.result))

(* "client_confirm_cancel_<id>" *)
ConfirmCancel(u, id) ==
    LET o == cancel_appointment_by_client(appointments, clients, id, u)
    IN  Event(u, o.appointments, Cleared,
              Ev("cancel_appointment_by_client", id, u, o.result))

(* what a client can make the bot do in one event *)
ClientEvent(u) ==
    \/ StartClientBooking(u)
    \/ \E text \in NameTexts : HandleClientNameInput(u, text)
    \/ \E text \in DateTexts : HandleClientDateInput(u, text)
    \/ SelectBookingData(u)
    \/ ConfirmBooking(u)
    \/ ClearState(u)
    \/ StartClientReschedule(u)
    \/ StartClientCancel(u)
    \/ \E id \in IdTexts : HandleClientRescheduleSelection(u, id)
    \/ \E id \in IdTexts : StartRescheduleProcess(u, id)
    \/ \E text \in DateTexts, now \in NowInputs : HandleClientRescheduleDate(u, text, now)
    \/ \E text \in TimeTexts, now \in NowInputs : HandleClientRescheduleTime(u, text, now)
    \/ \E id \in IdTexts : HandleClientCancelSelection(u, id)
    \/ \E id \in IdTexts : StartCancelProcess(u, id)
    \/ \E id \in IdTexts : ConfirmCancel(u, id)

DialogueBook == \E u \in OwnerInputs, t \in TimeInputs :
                    BookAppointment(u, "Anna", ClientDate, t, "Haircut")

NextDialogue ==
    \/ DialogueBook
    \/ Delete
    \/ \E u \in Users : ClientEvent(u)

SpecDialogue == Init /\ [][NextDialogue]_vars

-----------------------------------------------------------------------------
(* SpecSlots: get_available_times asked between bookings, cancellations,     *)
(* deletions, sweeps and midnights.                                          *)

SlotsBook == \E d \in DateInputs, t \in TimeInputs : BookAppointment(1, "Anna", d, t, "Haircut")
SlotsCancel == \E id \in 1..MaxAppts : CancelAppointmentByClient(id, 1)
SlotsDelete == \E id \in 1..MaxAppts : DeleteAppointment(id)
SlotsCleanup == CleanupOldAppointments(0)
SlotsAsk == \E d \in QueryDates, x \in ExcludeInputs, now \in NowInputs : GetAvailableTimes(d, x, now)

NextSlots ==
    \/ SlotsBook
    \/ SlotsCancel
    \/ SlotsDelete
    \/ SlotsCleanup
    \/ SlotsAsk
    \/ NewDay

SpecSlots == Init /\ [][NextSlots]_vars

-----------------------------------------------------------------------------
(* SpecFault: the Store's functions called one at a time, each call meeting  *)
(* no fault or one fault.                                                    *)

ReadFaults == FaultPoints \ {"commit"}

FaultRegister ==
    \E f \in FaultPoints :
        LET r == register_or_update_client(clients, 1, "Anna", NoPhone, today, FALSE)
        IN  FaultyCall("register_or_update_client", 0,
                       Outcome(appointments, r.clients, r.result), f, FALSE, FALSE)

FaultBook ==
    \E f \in FaultPoints, t \in TimeInputs :
        FaultyCall("book_appointment", 0,
                   book_appointment(appointments, clients, 1, "Bob", ClientDate, t,
                                    "Haircut", NoPhone, today),
                   f, NULL, FALSE)

FaultAdd ==
    \E f \in FaultPoints, t \in TimeInputs :
        FaultyCall("add_appointment", 0,
                   add_appointment(appointments, clients, "Bob", ClientDate, t,
                                   "Haircut", 1, NoPhone, today),
                   f, NULL, FALSE)

FaultCancel ==
    \E f \in FaultPoints, id \in 1..MaxAppts :
        FaultyCall("cancel_appointment_by_client", 0,
                   cancel_appointment_by_client(appointments, clients, id, 1),
                   f, FALSE, FALSE)

FaultReschedule ==
    \E f \in FaultPoints, id \in 1..MaxAppts, t \in TimeInputs :
        FaultyCall("reschedule_appointment", 0,
                   reschedule_appointment(appointments, clients, id, ClientDate, t, NULL),
                   f, FALSE, FALSE)

FaultDelete ==
    \E f \in FaultPoints, id \in 1..MaxAppts :
        FaultyCall("delete_appointment", 0,
                   delete_appointment(appointments, clients, id), f, FALSE, FALSE)

FaultUpdate ==
    \E f \in FaultPoints :
        \/ FaultyCall("update_appointment_time", 0,
                      update_appointment_time(appointments, clients, 1, StrfTime(570)),
                      f, FALSE, FALSE)
        \/ FaultyCall("update_appointment_client", 0,
                      update_appointment_client(appointments, clients, 1, "Anna"),
                      f, FALSE, FALSE)
        \/ FaultyCall("update_appointment_service", 0,
                      update_appointment_service(appointments, clients, 1, "Manicure"),
                      f, FALSE, FALSE)

FaultAsk ==
    \E f \in ReadFaults :
        FaultyCall("get_available_times", 0,
                   Outcome(appointments, clients,
                           get_available_times(appointments, DmyDate(1), NULL, today, 0)),
                   f, <<>>, TRUE)

FaultCheck ==
    \E f \in ReadFaults, t \in TimeInputs :
        FaultyCall("check_time_conflict", 0,
                   Outcome(appointments, clients,
                           check_time_conflict(appointments, t, ClientDate, NULL)),
                   f, <<>>, FALSE)

(* book_appointment whose check_time_conflict meets sqlite3.Error at its    *)
(* SELECT: the check prints the error and returns None, the value it        *)
(* returns for a free slot, and the rest of the call runs without fault     *)
FaultInCheck ==
    \E t \in TimeInputs :
        LET o == book_appointment_after(<<>>, appointments, clients, 1, "Bob",
                                        ClientDate, t, "Haircut", NoPhone, today)
        IN  Commit(o, Ev("book_appointment", 0,
                         [result |-> o.result, raised |-> FALSE, fault |-> "check"],
                         o.result # NULL))

NextFault ==
    \/ FaultInCheck
    \/ FaultRegister
    \/ FaultBook
    \/ FaultAdd
    \/ FaultCancel
    \/ FaultReschedule
    \/ FaultDelete
    \/ FaultUpdate
    \/ FaultAsk
    \/ FaultCheck

SpecFault == Init /\ [][NextFault]_vars

-----------------------------------------------------------------------------
(* Claims about calls that run one at a time *)

SameSlot(r1, r2) ==
    /\ r1.appointment_date = r2.appointment_date
    /\ r1.appointment_time = r2.appointment_time

(* C1: after any sequence of book, reschedule, cancel, delete and archive   *)
(* calls run one at a time, no two active rows share (date, time).          *)
C1_SlotUniqueness ==
    \A i, j \in ActiveIds(appointments) :
        i # j => ~SameSlot(appointments[i], appointments[j])

(* a reschedule has just moved one of two active appointments *)
C1_Witness ==
    /\ last.op = "reschedule_appointment"
    /\ last.ok
    /\ Cardinality(ActiveIds(appointments)) = 2

(* the step is a call of op: every call records its name in last *)
Called(op) == last'.op = op

(* C5: cancel_appointment_by_client(id, ref) flips the row to               *)
(* cancelled_by_client exactly when the row is active and owned by ref;     *)
(* otherwise it returns False and no row changes.                           *)
C5_CancelOwnership ==
    [][Called("cancel_appointment_by_client") =>
       \A id \in IdInputs, ref \in RefInputs :
          CancelAppointmentByClient(id, ref) =>
              IF /\ HasId(appointments, id)
                 /\ appointments[id].status = "active"
                 /\ ref # NULL
                 /\ appointments[id].telegram_user_id = ref
              THEN /\ last'.ok
                   /\ appointments' =
                          [appointments EXCEPT ![id].status = "cancelled_by_client"]
              ELSE /\ ~last'.ok
                   /\ appointments' = appointments]_vars

(* a cancel was refused on an appointment that is active: the requester     *)
(* was not its owner                                                        *)
C5_Witness ==
    /\ last.op = "cancel_appointment_by_client"
    /\ ~last.ok
    /\ HasId(appointments, last.id)
    /\ appointments[last.id].status = "active"

(* C6 as claimed: a reschedule whose requester_ref is supplied (is not      *)
(* None) and differs from the appointment's owner fails and moves nothing.  *)
C6_ForeignRequesterRefused ==
    [][Called("reschedule_appointment") =>
       \A id \in IdInputs, d \in DateInputs, t \in TimeInputs,
          ref \in RefInputs \ {NULL} :
          (/\ RescheduleAppointment(id, d, t, ref)
           /\ HasId(appointments, id)
           /\ appointments[id].telegram_user_id # NULL
           /\ appointments[id].telegram_user_id # ref)
          => /\ ~last'.ok
             /\ appointments' = appointments]_vars

(* C9: once the active appointment at (D, T) is deleted or cancelled, the   *)
(* next book_appointment at (D, T) succeeds.                                *)
C9_RebookAfterRelease ==
    [][Called("book_appointment") =>
       \A u \in OwnerInputs, d \in DateInputs, t \in TimeInputs :
          (/\ last.op \in {"delete_appointment", "cancel_appointment_by_client"}
           /\ last.ok
           /\ appointments[last.id].appointment_date = d
           /\ appointments[last.id].appointment_time = t
           /\ BookAppointment(u, "Anna", d, t, "Haircut"))
          => /\ last'.ok
             /\ last'.rid = Len(appointments) + 1
             /\ appointments'[last'.rid].status = "active"
             /\ appointments'[last'.rid].appointment_date = d
             /\ appointments'[last'.rid].appointment_time = t]_vars

(* a booking has succeeded on the slot of a deleted or cancelled row *)
C9_Witness ==
    /\ last.op = "book_appointment"
    /\ last.ok
    /\ \E i \in Ids(appointments) :
          /\ i # last.rid
          /\ appointments[i].status \in {"deleted", "cancelled_by_client"}
          /\ SameSlot(appointments[i], appointments[last.rid])

(* C4: book_appointment on a (date, time) held by an active appointment     *)
(* returns None and changes neither table.                                  *)
C4_ConflictRejected ==
    [][Called("book_appointment") =>
       \A u \in Users, n \in NameInputs, t \in TimeInputs :
          (/\ BookAppointment(u, n, ClientDate, t, "Haircut")
           /\ ActiveAt(appointments, ClientDate, t) # {})
          => /\ last'.rid = NULL
             /\ ~last'.ok
             /\ appointments' = appointments
             /\ clients' = clients]_vars

(* a booking was refused while the requester has a client record *)
C4_Witness ==
    /\ last.op = "book_appointment"
    /\ ~last.ok
    /\ \E u \in Users : clients[u] # NoClient
    /\ ActiveIds(appointments) # {}

(* the slots of the business-hours template: every half hour from the      *)
(* opening hour up to the closing hour, the break left out                 *)
TemplateMinutes ==
    {m \in 0..1439 :
        /\ (m - HourMinute(WORKING_HOURS.start)) % 30 = 0
        /\ HourMinute(WORKING_HOURS.start) <= m
        /\ m < HourMinute(WORKING_HOURS.end)
        /\ ~(HourMinute(WORKING_HOURS.break_start) <= m
               /\ m < HourMinute(WORKING_HOURS.break_end))}

(* the round trip of C8: the step moves, within its date, the appointment   *)
(* that the preceding call booked                                           *)
RoundTrip(id, d, t2, ref) ==
    /\ last.op = "book_appointment"
    /\ last.ok
    /\ last.rid = id
    /\ appointments[id].appointment_date = d
    /\ appointments[id].appointment_time # t2
    /\ last'.ok
    /\ RescheduleAppointment(id, d, t2, ref)

FreeAfter(d, now) ==
    Range(get_available_times(appointments', DmyDate(d[2]), NULL, today, now))

(* C8 as claimed: after the round trip the appointment shows T2, T2 is not  *)
(* offered and T1 is offered again.                                         *)
C8_RoundTripFreesOldSlot ==
    [][(last.op = "book_appointment" /\ Called("reschedule_appointment")) =>
       \A id \in IdInputs, d \in DateInputs, t2 \in RoundTripTimes, ref \in {NULL} :
          RoundTrip(id, d, t2, ref) =>
              /\ get_appointment_by_id(appointments', id)[3] = t2
              /\ \A now \in NowInputs :
                    /\ t2 \notin FreeAfter(d, now)
                    /\ appointments[id].appointment_time \in FreeAfter(d, now)]_vars

(* C8 amended: T1 is offered again exactly when it is a template slot that  *)
(* the clock has not passed.                                                *)
C8_RoundTripAmended ==
    [][(last.op = "book_appointment" /\ Called("reschedule_appointment")) =>
       \A id \in IdInputs, d \in DateInputs, t2 \in RoundTripTimes, ref \in {NULL} :
          RoundTrip(id, d, t2, ref) =>
              LET t1 == appointments[id].appointment_time
              IN  /\ get_appointment_by_id(appointments', id)[3] = t2
                  /\ \A now \in NowInputs :
                        LET free == FreeAfter(d, now)
                        IN  /\ t2 \notin free
                            /\ t1 \in free <=>
                                  /\ HourMinute(t1) \in TemplateMinutes
                                  /\ d[2] >= today
                                  /\ (d[2] = today => HourMinute(t1) > now)]_vars

(* a booked appointment has just been moved within a date that is not past *)
C8_Witness ==
    /\ last.op = "reschedule_appointment"
    /\ last.ok
    /\ appointments[last.id].appointment_date[2] >= today
    /\ HourMinute(appointments[last.id].appointment_time) = 570

(* the status changes a single step may make to a row *)
LegalStatusStep(from, to) ==
    \/ from = to
    \/ from = "active" /\ to \in {"cancelled_by_client", "deleted"}
    \/ from \in {"cancelled_by_client", "deleted"} /\ to = "archived"

(* C10: in every step a row's status moves only along active ->             *)
(* cancelled_by_client, active -> deleted, cancelled_by_client -> archived  *)
(* or deleted -> archived; a new row starts active; only the retention      *)
(* sweep archives; no row is removed.                                       *)
C10_StatusTransitions ==
    [][/\ Len(appointments') >= Len(appointments)
       /\ \A i \in Ids(appointments) :
             /\ LegalStatusStep(appointments[i].status, appointments'[i].status)
             /\ (appointments'[i].status = "archived"
                    /\ appointments[i].status # "archived")
                => last'.op = "cleanup_old_appointments"
       /\ \A i \in Ids(appointments') \ Ids(appointments) :
             appointments'[i].status = "active"]_vars

(* the sweep has archived a row while another row is cancelled or deleted *)
C10_Witness ==
    /\ last.op = "cleanup_old_appointments"
    /\ last.rid = 1
    /\ \E i, j \in Ids(appointments) :
          /\ appointments[i].status = "archived"
          /\ appointments[j].status \in {"cancelled_by_client", "deleted"}

-----------------------------------------------------------------------------
(* Claims about concurrent callers *)

AtStart == last.rid

(* both callers have returned from calls that aimed at one (date, time),    *)
(* which no appointment held when they started                              *)
RacedForFreeSlot ==
    /\ phase = "race"
    /\ \A p \in Procs : pc[p] = "done"
    /\ call["p1"].date = call["p2"].date
    /\ call["p1"].time = call["p2"].time
    /\ ActiveAt(AtStart, call["p1"].date, call["p1"].time) = {}

Winners == {p \in Procs : call[p].ok}

(* C2 as claimed: of two concurrent book_appointment calls for the same     *)
(* free slot exactly one returns an id and exactly one active row holds     *)
(* the slot afterwards.                                                     *)
C2_ExactlyOneBookingWins ==
    (/\ RacedForFreeSlot
     /\ \A p \in Procs : call[p].op = "book_appointment")
    => /\ Cardinality(Winners) = 1
       /\ Cardinality(ActiveAt(appointments, call["p1"].date, call["p1"].time)) = 1

(* a reschedule in the race moves an appointment that was there and        *)
(* active when the race started                                            *)
MovesStandingAppointment(p) ==
    call[p].op = "reschedule_appointment" =>
        call[p].id \in ActiveIds(AtStart)

(* C3 as claimed: of a reschedule_appointment racing with a reschedule of   *)
(* another appointment or with a book_appointment for the same free slot    *)
(* at most one succeeds, and the slot never holds two active appointments.  *)
C3_AtMostOneMoverWins ==
    (/\ RacedForFreeSlot
     /\ \E p \in Procs : call[p].op = "reschedule_appointment"
     /\ \A p \in Procs : MovesStandingAppointment(p)
     /\ call["p1"].id # call["p2"].id)
    => /\ Cardinality(Winners) <= 1
       /\ Cardinality(ActiveAt(appointments, call["p1"].date, call["p1"].time)) <= 1

-----------------------------------------------------------------------------
(* Claims about the client dialogue *)

(* C7: whatever text or callback a non-admin user u sends, in whatever FSM  *)
(* state, the event leaves every appointment whose owner is not u (another  *)
(* user's, or an ownerless one) exactly as it was: no step that changes     *)
(* such an appointment is an event of u.                                    *)
C7_OthersUntouched ==
    [][\A u \in Users :
           (\E i \in Ids(appointments) :
               /\ appointments[i].telegram_user_id # u
               /\ (i \in Ids(appointments') => appointments'[i] # appointments[i]))
           => ~ClientEvent(u)]_vars

(* user u confirmed the cancellation of an active appointment that is not   *)
(* theirs and was refused, the appointment still active                     *)
C7_Witness ==
    /\ last.op = "cancel_appointment_by_client"
    /\ ~last.ok
    /\ last.id \in ActiveIds(appointments)
    /\ last.rid \in Users
    /\ appointments[last.id].telegram_user_id \in Users \ {last.rid}

-----------------------------------------------------------------------------
(* Claims about the life of a row *)

OrdinaryOps ==
    {"reschedule_appointment", "update_appointment_time",
     "update_appointment_client", "update_appointment_service",
     "cancel_appointment_by_client", "delete_appointment"}

(* C11: a reschedule, update, cancel or delete called on the id of a row    *)
(* that is cancelled, deleted or archived returns failure and changes no    *)
(* row.                                                                     *)
C11_TerminalAbsorbing ==
    [][(/\ last'.op \in OrdinaryOps
        /\ HasId(appointments, last'.id)
        /\ appointments[last'.id].status # "active")
       => /\ ~last'.ok
          /\ appointments' = appointments]_vars

(* an update of the client name was refused on an archived row *)
C11_Witness ==
    /\ last.op = "update_appointment_client"
    /\ ~last.ok
    /\ HasId(appointments, last.id)
    /\ appointments[last.id].status = "archived"

SweepDays == 0..MaxDay

(* C12: a call of cleanup_old_appointments, wherever it falls among the     *)
(* other calls, leaves the set of active rows, every active row, and the    *)
(* answer of get_available_times for every date and clock as they were.     *)
C12_SweepSparesActive ==
    [][Called("cleanup_old_appointments")
       => /\ ActiveIds(appointments') = ActiveIds(appointments)
          /\ \A i \in ActiveIds(appointments) : appointments'[i] = appointments[i]
          /\ \A d \in SweepDays, now \in NowInputs :
                get_available_times(appointments', DmyDate(d), NULL, today', now)
                   = get_available_times(appointments, DmyDate(d), NULL, today, now)]_vars

(* a sweep archived a row while an active row older than the cutoff stood *)
C12_Witness ==
    /\ last.op = "cleanup_old_appointments"
    /\ last.rid > 0
    /\ \E i \in ActiveIds(appointments) :
          DateLess(appointments[i].appointment_date, IsoDate(today))

(* C13: straight after cleanup_old_appointments(N) has run, a second call   *)
(* with the same N leaves both tables as the first call left them and       *)
(* returns 0.                                                               *)
C13_SweepIdempotent ==
    [][Called("cleanup_old_appointments")
       => \A n \in AgeInputs :
             CleanupOldAppointments(n)
                => LET second == cleanup_old_appointments(appointments', clients', today', n)
                   IN  /\ second.appointments = appointments'
                       /\ second.clients = clients'
                       /\ second.result = 0]_vars

(* the first of the two sweeps archived two rows *)
C13_Witness ==
    /\ last.op = "cleanup_old_appointments"
    /\ last.rid = 2
    /\ \A i \in Ids(appointments) : appointments[i].status = "archived"

-----------------------------------------------------------------------------
(* Claims about get_available_times *)

(* r lists, in ascending order and once each, exactly the slots whose       *)
(* minutes are in S                                                         *)
ListsExactly(r, S) ==
    /\ Len(r) = Cardinality(S)
    /\ Range(r) = {StrfTime(m) : m \in S}
    /\ \A i, j \in 1..Len(r) : i < j => HourMinute(r[i]) < HourMinute(r[j])

Asked == last.op = "get_available_times"

(* the question asked is about a date after today on which no row stands *)
AskedEmptyFutureDay ==
    /\ Asked
    /\ StrpDmy(last.rid.date) # NULL
    /\ StrpDmy(last.rid.date) > today
    /\ \A i \in Ids(appointments) :
          appointments[i].appointment_date # IsoDate(StrpDmy(last.rid.date))

(* the loop of get_available_times run over the hours the example names,    *)
(* 09:00-18:00 with the break 13:00-14:00, on a day with no busy time and   *)
(* no clock pruning                                                         *)
ExampleSlots ==
    SlotLoop(HourMinute(StrfTime(9 * 60)), HourMinute(StrfTime(18 * 60)),
             HourMinute(StrfTime(13 * 60)), HourMinute(StrfTime(14 * 60)), {}, NULL)

(* C14 as stated: for a date after today that holds no appointment,         *)
(* get_available_times returns exactly the template slots, and these are    *)
(* 18 for the hours 09:00-18:00 with the break 13:00-14:00.                 *)
C14_EighteenSlots ==
    AskedEmptyFutureDay =>
        /\ ListsExactly(last.rid.result, TemplateMinutes)
        /\ Len(ExampleSlots) = 18

(* C14 amended: for a date after today that holds no appointment,           *)
(* get_available_times returns exactly the template slots, every half hour  *)
(* from opening up to closing outside the break, and these are 16 for the   *)
(* hours 09:00-18:00 with the break 13:00-14:00.                            *)
C14_EmptyDayTemplate ==
    AskedEmptyFutureDay =>
        /\ ListsExactly(last.rid.result, TemplateMinutes)
        /\ Len(ExampleSlots) = 16

(* tomorrow was asked about while appointments stand today and none         *)
(* tomorrow                                                                 *)
C14_Witness ==
    /\ AskedEmptyFutureDay
    /\ today = 1
    /\ last.rid.date = DmyDate(2)
    /\ ActiveIds(appointments) # {}
    /\ Len(last.rid.result) > 0

(* slot m of day D is blocked: an active appointment other than x holds it *)
Blocked(D, m, x) ==
    \E i \in Ids(appointments) :
        /\ i # x
        /\ appointments[i].status = "active"
        /\ appointments[i].appointment_date = IsoDate(D)
        /\ appointments[i].appointment_time = StrfTime(m)

(* slot m of day D is in the past at clock time now *)
InPast(D, m, now) == D < today \/ (D = today /\ m <= now)

(* C15: whatever the table holds, a template slot S is in the answer of     *)
(* get_available_times(D, exclude_id) exactly when no active appointment    *)
(* other than exclude_id holds (D, S) and S is not in the past; nothing     *)
(* outside the template is answered.                                        *)
C15_SlotOfferedIffFree ==
    (Asked /\ StrpDmy(last.rid.date) # NULL) =>
        LET D == StrpDmy(last.rid.date)
            offered == Range(last.rid.result)
        IN  /\ offered \subseteq {StrfTime(m) : m \in TemplateMinutes}
            /\ \A m \in TemplateMinutes :
                  StrfTime(m) \in offered
                     <=> (~Blocked(D, m, last.id) /\ ~InPast(D, m, last.rid.now))

(* the question excluded appointment 1, which is active on the date asked   *)
(* about, beside a row that is no longer active; the slot of appointment 1  *)
(* is offered                                                               *)
C15_Witness ==
    /\ Asked
    /\ last.id = 1
    /\ 1 \in ActiveIds(appointments)
    /\ appointments[1].appointment_date = IsoDate(StrpDmy(last.rid.date))
    /\ appointments[1].appointment_time \in Range(last.rid.result)
    /\ \E j \in Ids(appointments) :
          /\ appointments[j].status # "active"
          /\ appointments[j].appointment_date = appointments[1].appointment_date
          /\ appointments[j].appointment_time \in Range(last.rid.result)

(* clock values from midnight to the last minute of the day *)
ClockProbes == {0, 12 * 60, 23 * 60 + 59}

(* C16: get_available_times answers the empty list for a date before        *)
(* today; for today every slot answered is strictly after the clock; for a  *)
(* date after today the answer is the same at every clock value.            *)
C16_ClockPruning ==
    (Asked /\ StrpDmy(last.rid.date) # NULL) =>
        LET D == StrpDmy(last.rid.date)
            r == last.rid.result
        IN  /\ D < today => r = <<>>
            /\ D = today => \A k \in 1..Len(r) : HourMinute(r[k]) > last.rid.now
            /\ D > today =>
                  \A n \in ClockProbes :
                      get_available_times(appointments, last.rid.date, last.id, today, n) = r

(* today was asked about at 09:00: 09:00 is not answered, 09:30 is *)
C16_Witness ==
    /\ Asked
    /\ last.rid.date = DmyDate(today)
    /\ last.rid.now = 540
    /\ StrfTime(540) \notin Range(last.rid.result)
    /\ ~Blocked(today, 540, last.id)
    /\ StrfTime(570) \in Range(last.rid.result)

-----------------------------------------------------------------------------
(* Claims about the clients table *)

(* C17: when book_appointment returns an id, the row of that id is active   *)
(* at the date and time booked and the clients table holds a record of the  *)
(* booking client with the name and phone of the booking.                   *)
C17_BookingRecordsClient ==
    [][(Called("book_appointment") /\ last'.ok)
       => /\ HasId(appointments', last'.rid)
          /\ LET row == appointments'[last'.rid]
             IN  /\ row.status = "active"
                 /\ clients'[row.telegram_user_id] # NoClient
                 /\ clients'[row.telegram_user_id].name = row.client_name
                 /\ clients'[row.telegram_user_id].phone = row.phone]_vars

(* the rows that successful calls of book_appointment inserted for u; under *)
(* SpecClients nothing else inserts and nothing removes a row               *)
BookedBy(u) == {i \in Ids(appointments) : appointments[i].telegram_user_id = u}

(* C18: for every client the record's total_visits is the number of         *)
(* successful bookings of that client, 1 after the first.                   *)
C18_VisitsCountBookings ==
    \A u \in Users :
        BookedBy(u) # {} =>
            /\ clients[u] # NoClient
            /\ clients[u].total_visits = Cardinality(BookedBy(u))

-----------------------------------------------------------------------------
(* Claims about storage faults *)

WriteOps == OrdinaryOps \cup {"book_appointment", "add_appointment"}

(* C19: a call of book_appointment, add_appointment, reschedule, cancel,     *)
(* delete or an update that does not return success, with or without a      *)
(* storage fault, leaves the appointments table and the clients table as    *)
(* they were before the call.                                               *)
C19_AllOrNothing ==
    [][(last'.op \in WriteOps /\ ~last'.ok)
       => /\ appointments' = appointments
          /\ clients' = clients]_vars

(* a booking for a client with a record failed at its commit, after the     *)
(* row was inserted and the visit counted                                   *)
C19_Witness ==
    /\ last.op = "book_appointment"
    /\ ~last.ok
    /\ last.rid.fault = "commit"
    /\ ~last.rid.raised
    /\ clients[1] # NoClient
    /\ ActiveIds(appointments) # {}
    /\ Len(appointments) < MaxAppts

(* C20: no call of a Store function lets a storage fault reach its caller   *)
(* as an exception; at every fault point the call returns its failure       *)
(* value.                                                                   *)
C20_NoFaultEscapes ==
    last.op # "init_database" => ~last.rid.raised

-----------------------------------------------------------------------------
(* Claims about the outcome a caller receives *)

(* C21: when book_appointment or reschedule_appointment is rejected because *)
(* another active appointment holds the slot, what the caller receives      *)
(* differs from what the same call returns on a storage fault, and, for a   *)
(* reschedule, from what it returns for an id that names no row.            *)
C21_ConflictOutcomeDistinct ==
    [][\A t \in TimeInputs :
          /\ LET o == book_appointment(appointments, clients, 1, "Bob", ClientDate, t, "Haircut", NoPhone, today)
             IN  (/\ Called("book_appointment")
                  /\ check_time_conflict(appointments, t, ClientDate, NULL) # <<>>
                  /\ FaultyCall("book_appointment", 0, o, "none", NULL, FALSE))
                 => last'.rid.result
                       # Faulted(appointments, clients, o, "execute", NULL, FALSE).result
          /\ \A id \in 1..MaxAppts :
                LET o == reschedule_appointment(appointments, clients, id, ClientDate, t, NULL)
                IN  (/\ Called("reschedule_appointment")
                     /\ check_time_conflict(appointments, t, ClientDate, id) # <<>>
                     /\ FaultyCall("reschedule_appointment", 0, o, "none", FALSE, FALSE))
                    => /\ last'.rid.result
                             # Faulted(appointments, clients, o, "execute", FALSE, FALSE).result
                       /\ last'.rid.result
                             # reschedule_appointment(appointments, clients, MaxAppts + 1,
                                                      ClientDate, t, NULL).result]_vars

-----------------------------------------------------------------------------
(* Claims about what the Store itself enforces *)

(* C22: after any sequence of Store writes, update_appointment_time called  *)
(* without a conflict check among them, every (date, time) is held by at    *)
(* most one active row.                                                     *)
C22_StoreEnforcesUniqueness ==
    \A d \in DateInputs, t \in TimeInputs :
        Cardinality(ActiveAt(appointments, d, t)) <= 1

-----------------------------------------------------------------------------
(* SpecAdmin: the administrator types a new time for an appointment          *)
(* (handle_admin_time_change), between additions and deletions.              *)

(* handle_admin_time_change for the appointment_id kept in the FSM data and  *)
(* the text of the message, run to its end                                   *)
HandleAdminTimeChange(appointment_id, new_time) ==
    IF ~validate_time_format(new_time)
    THEN Commit(Outcome(appointments, clients, FALSE),
                Ev("handle_admin_time_change", appointment_id, NULL, FALSE))
    ELSE LET appointment_info == get_appointment_by_id(appointments, appointment_id)
         IN  IF appointment_info = <<>>
             THEN Commit(Outcome(appointments, clients, FALSE),
                         Ev("handle_admin_time_change", appointment_id, NULL, FALSE))
             ELSE IF check_time_conflict(appointments, new_time, appointment_info[2],
                                         appointment_id) # <<>>
             THEN Commit(Outcome(appointments, clients, FALSE),
                         Ev("handle_admin_time_change", appointment_id, NULL, FALSE))
             ELSE LET o == update_appointment_time(appointments, clients,
                                                   appointment_id, new_time)
                  IN  Commit(o, Ev("handle_admin_time_change", appointment_id,
                                   NULL, o.result))

AdminAdd == \E d \in DateInputs, t \in TimeInputs : AddAppointment(NULL, "Anna", d, t, "Haircut")

AdminTimeChange == \E id \in IdInputs, txt \in TimeTexts : HandleAdminTimeChange(id, txt)

NextAdmin ==
    \/ AdminAdd
    \/ AdminTimeChange
    \/ Delete

SpecAdmin == Init /\ [][NextAdmin]_vars

(* C23: every stored appointment's time is a zero-padded HH:MM text and one *)
(* of the half-hour slots of the business-hours template, whichever path    *)
(* wrote it.                                                                *)
C23_StoredTimesAreSlots ==
    \A i \in Ids(appointments) :
        LET t == appointments[i].appointment_time
        IN  /\ validate_time_format(t)
            /\ t = StrfTime(HourMinute(t))
            /\ HourMinute(t) \in TemplateMinutes

-----------------------------------------------------------------------------
(* Claims about reschedule_appointment *)

(* C24: reschedule_appointment called with an id that names no row, or a    *)
(* row that is not active, returns False and changes no row, whether the    *)
(* target slot is free or held.                                             *)
C24_RescheduleNotFound ==
    [][(/\ Called("reschedule_appointment")
        /\ ~ActiveRowOf(appointments, last'.id))
       => /\ ~last'.ok
          /\ appointments' = appointments]_vars

(* a reschedule of an id that names no row was refused while a cancelled    *)
(* row and an active row stood                                              *)
C24_Witness ==
    /\ last.op = "reschedule_appointment"
    /\ ~last.ok
    /\ ~HasId(appointments, last.id)
    /\ ActiveIds(appointments) # {}
    /\ ActiveIds(appointments) # Ids(appointments)

(* an active appointment other than id holds (d, t) *)
OtherHolds(id, d, t) == ActiveAt(appointments, d, t) \ {id} # {}

(* C25: reschedule_appointment(id, D, T) returns False and changes nothing  *)
(* when an active appointment other than id holds (D, T), whoever asks;     *)
(* called without a requester for an active appointment that itself holds   *)
(* (D, T), it returns True and the row stays where it is.                   *)
C25_OwnSlotIsNoConflict ==
    [][Called("reschedule_appointment") =>
       \A d \in DateInputs, t \in TimeInputs :
          /\ OtherHolds(last'.id, d, t) =>
                \A u \in RefInputs :
                    RescheduleAppointment(last'.id, d, t, u)
                        => (~last'.ok /\ appointments' = appointments)
          /\ (/\ ~OtherHolds(last'.id, d, t)
              /\ last'.id \in ActiveAt(appointments, d, t))
             => (RescheduleAppointment(last'.id, d, t, NULL)
                    => (last'.ok /\ appointments' = appointments))]_vars

(* a reschedule of an active appointment was refused while a second active  *)
(* appointment stood on the same date                                       *)
C25_Witness ==
    /\ last.op = "reschedule_appointment"
    /\ ~last.ok
    /\ last.id \in ActiveIds(appointments)
    /\ \E j \in ActiveIds(appointments) \ {last.id} :
          appointments[j].appointment_date = appointments[last.id].appointment_date

-----------------------------------------------------------------------------
(* Claims about waiting for SQLite's write lock *)

(* C26: a call in which a store access timed out waiting for the write lock *)
(* returns its failure value and does not report success; for               *)
(* book_appointment the access that waits is the write of the nested        *)
(* register_or_update_client, reached once the conflict check has passed.   *)
C26_LockTimeoutReportsFailure ==
    [][Called("book_appointment") =>
       \A u \in Users, n \in NameInputs, t \in TimeInputs :
          (/\ BookAppointment(u, n, ClientDate, t, "Haircut")
           /\ check_time_conflict(appointments, t, ClientDate, NULL) = <<>>
           /\ ~register_or_update_client(clients, u, n, NoPhone, today, TRUE).result)
          => ~last'.ok]_vars

-----------------------------------------------------------------------------
(* search_appointment (src/database.py) and SpecSearch: the administrator's  *)
(* search asked between additions, renamings and deletions.                  *)

(* the characters of the client names the model stores *)
NameChars == [Anna |-> <<"A", "n", "n", "a">>, Bob |-> <<"B", "o", "b">>]

(* SQLite's text LIKE pattern: % matches any run of characters, _ any one   *)
(* character, and ASCII letters match without regard to case                *)
RECURSIVE LikeMatch(_, _)
LikeMatch(text, pattern) ==
    LET lower(c) == IF c = "A" THEN "a" ELSE IF c = "B" THEN "b" ELSE c
    IN  IF pattern = <<>> THEN text = <<>>
        ELSE IF Head(pattern) = "%"
        THEN \E k \in 0..Len(text) :
                 LikeMatch(SubSeq(text, k + 1, Len(text)), Tail(pattern))
        ELSE /\ text # <<>>
             /\ (Head(pattern) = "_" \/ lower(Head(pattern)) = lower(Head(text)))
             /\ LikeMatch(Tail(text), Tail(pattern))

(* search_appointment: the ids of the rows fetched, in the order fetched.   *)
(* A term of digits is compared with the INTEGER column id as a number.     *)
(* ORDER BY appointment_date, appointment_time compares texts; for the      *)
(* zero-padded times stored under SpecSearch that is the order of the       *)
(* minutes, and rows of one slot come in the order of their ids.            *)
search_appointment(tbl, search_term) ==
    IF search_term # <<>> /\ \A k \in 1..Len(search_term) : IsDigit(search_term[k])
    THEN IF HasId(tbl, IntOf(search_term)) /\ tbl[IntOf(search_term)].status = "active"
         THEN <<IntOf(search_term)>>
         ELSE <<>>
    ELSE LET pattern == <<"%">> \o search_term \o <<"%">>
             found == {i \in ActiveIds(tbl) :
                          \/ LikeMatch(NameChars[tbl[i].client_name], pattern)
                          \/ LikeMatch(tbl[i].appointment_time, pattern)}
             before(i, j) ==
                 \/ DateLess(tbl[i].appointment_date, tbl[j].appointment_date)
                 \/ /\ tbl[i].appointment_date = tbl[j].appointment_date
                    /\ \/ HourMinute(tbl[i].appointment_time)
                             < HourMinute(tbl[j].appointment_time)
                       \/ /\ tbl[i].appointment_time = tbl[j].appointment_time
                          /\ i < j
         IN  CHOOSE s \in [1..Cardinality(found) -> found] :
                 \A i, j \in 1..Cardinality(found) : i < j => before(s[i], s[j])

SearchTerms ==
    {<<"1">>, <<"0", "9">>, <<"n", "n">>, <<"a", "n">>, <<"3", "0">>, <<":", "3">>, <<"_">>}

SearchAppointment(search_term) ==
    /\ phase = "seq"
    /\ last' = Ev("search_appointment", 0,
                  [term |-> search_term,
                   result |-> search_appointment(appointments, search_term)],
                  TRUE)
    /\ UNCHANGED <<appointments, clients, today, phase, pc, call, writer, fsm>>

SearchAsk == \E term \in SearchTerms : SearchAppointment(term)

NextSearch ==
    \/ AdminAdd
    \/ StoreUpdateClient
    \/ Delete
    \/ SearchAsk

SpecSearch == Init /\ [][NextSearch]_vars

Searched == last.op = "search_appointment"

(* text holds term as a run of consecutive characters, letters compared     *)
(* without regard to case                                                   *)
Contains(text, term) ==
    LET fold(c) == IF c = "A" THEN "a" ELSE IF c = "B" THEN "b" ELSE c
    IN  \E k \in 0..(Len(text) - Len(term)) :
            \A m \in 1..Len(term) : fold(text[k + m]) = fold(term[m])

(* C27: search_appointment returns only active rows: for a term of digits   *)
(* the active row with that id or nothing; for any other term every active  *)
(* row whose client name or time contains the term, and no other row,       *)
(* ordered by date and time.                                                *)
C27_SearchFindsSubstring ==
    Searched =>
        LET term == last.rid.term
            result == last.rid.result
        IN  /\ \A k \in 1..Len(result) : result[k] \in ActiveIds(appointments)
            /\ \A i, j \in 1..Len(result) : i < j => result[i] # result[j]
            /\ IF \A k \in 1..Len(term) : IsDigit(term[k])
               THEN Range(result) = ActiveIds(appointments) \cap {IntOf(term)}
               ELSE /\ Range(result) =
                          {i \in ActiveIds(appointments) :
                              \/ Contains(NameChars[appointments[i].client_name], term)
                              \/ Contains(appointments[i].appointment_time, term)}
                    /\ \A i, j \in 1..Len(result) :
                          i < j => ~DateLess(appointments[result[j]].appointment_date,
                                             appointments[result[i]].appointment_date)

-----------------------------------------------------------------------------
(* Claims about appointment ids *)

(* C28: no step removes a row or changes which id a row has, and every      *)
(* successful insert returns an id greater than every id assigned before    *)
(* it, under which the new row stands.                                      *)
C28_IdsNeverReused ==
    [][/\ Ids(appointments) \subseteq Ids(appointments')
       /\ (/\ last'.op \in {"book_appointment", "add_appointment"}
           /\ last'.ok)
          => /\ \A i \in Ids(appointments) : last'.rid > i
             /\ Ids(appointments') = Ids(appointments) \cup {last'.rid}]_vars

(* an insert returned id 2 after appointment 1 had been deleted *)
C28_Witness ==
    /\ last.op \in {"book_appointment", "add_appointment"}
    /\ last.ok
    /\ last.rid = 2
    /\ appointments[1].status = "deleted"

-----------------------------------------------------------------------------
(* Claims about the administrator's time change *)

(* two rows stand at the same date and the same time of day *)
SameMoment(r1, r2) ==
    /\ r1.appointment_date = r2.appointment_date
    /\ HourMinute(r1.appointment_time) = HourMinute(r2.appointment_time)

(* C29: a time change by the administrator (read the appointment, check the *)
(* conflict, update the time), wherever it falls among the other calls,     *)
(* never brings two active appointments to the same date and time.          *)
C29_TimeChangeKeepsSlotsUnique ==
    [][Called("handle_admin_time_change") =>
       \A i, j \in ActiveIds(appointments') :
          (i # j /\ SameMoment(appointments'[i], appointments'[j]))
             => SameMoment(appointments[i], appointments[j])]_vars

-----------------------------------------------------------------------------
(* Claims about a slot taken between the offer and the choice *)

(* an active appointment of a session other than u holds (d, t) *)
HeldByAnother(u, d, t) ==
    \E j \in ActiveAt(appointments, d, t) : appointments[j].telegram_user_id # u

(* C30: when session B's appointment has come to hold slot S by the time    *)
(* session A's book_appointment or reschedule_appointment for S runs, A's   *)
(* call is rejected and no row, B's included, is changed.                   *)
C30_TakenSlotIsRefused ==
    [][\A a \in Users, d \in DateInputs, t \in TimeInputs :
          HeldByAnother(a, d, t) =>
             /\ BookAppointment(a, "Anna", d, t, "Haircut")
                   => (last'.rid = NULL /\ appointments' = appointments)
             /\ \A id \in IdInputs :
                   (OwnedBy(appointments, id, a)
                      /\ RescheduleAppointment(id, d, t, a))
                   => (~last'.ok /\ appointments' = appointments)]_vars

(* a booking has just been refused while the appointment of a client stands *)
C30_Witness ==
    /\ last.op = "book_appointment"
    /\ last.rid = NULL
    /\ \E j \in ActiveIds(appointments) : appointments[j].telegram_user_id \in Users

-----------------------------------------------------------------------------
(* Claims about the retention sweep's result *)

(* row i is cancelled or deleted and dated before today minus n days *)
DueForArchive(i, n) ==
    /\ appointments[i].status \in {"cancelled_by_client", "deleted"}
    /\ appointments[i].appointment_date[2] < today - n

(* C32: cleanup_old_appointments(age_days) sets to 'archived' exactly the   *)
(* rows that are cancelled_by_client or deleted and dated before today      *)
(* minus age_days, leaves every other row and every field but the status    *)
(* as it was, and returns the number of rows it set.                        *)
C32_SweepArchivesExactlyTheDue ==
    [][Called("cleanup_old_appointments") =>
       \A n \in AgeInputs :
          CleanupOldAppointments(n) =>
             /\ Len(appointments') = Len(appointments)
             /\ \A i \in Ids(appointments) :
                   appointments'[i] =
                      IF DueForArchive(i, n)
                      THEN [appointments[i] EXCEPT !.status = "archived"]
                      ELSE appointments[i]
             /\ last'.rid = Cardinality({i \in Ids(appointments) : DueForArchive(i, n)})
             /\ clients' = clients]_vars

(* a sweep archived one row and spared a cancelled row that is not older    *)
(* than the cutoff                                                          *)
C32_Witness ==
    /\ last.op = "cleanup_old_appointments"
    /\ last.rid = 1
    /\ \E i \in Ids(appointments) :
          appointments[i].status \in {"cancelled_by_client", "deleted"}

-----------------------------------------------------------------------------
(* Claims about the administrator's field updates *)

(* the column each update writes *)
UpdatedField ==
    [update_appointment_time |-> "appointment_time",
     update_appointment_client |-> "client_name",
     update_appointment_service |-> "service"]

-----------------------------------------------------------------------------
(* Claims about a fault inside the conflict check *)

(* C35: a call of book_appointment whose conflict check could not read the  *)
(* Store writes nothing and reports failure.                                *)
C35_BlindCheckWritesNothing ==
    [][(Called("book_appointment") /\ last'.rid.fault = "check")
       => (~last'.ok /\ appointments' = appointments)]_vars

-----------------------------------------------------------------------------
(* Claims about what reschedule_appointment leaves alone *)

-----------------------------------------------------------------------------
(* SpecBot: the dispatchers of src/handlers.py, for one client and the       *)
(* administrator.  Each takes a text message or a callback and runs the      *)
(* branch the FSM state or the callback data selects, to its end.  Texts     *)
(* are tuples of characters (a menu command a tuple of its words), dates     *)
(* as written by DmyDate.  Appointments come from the Store calls of other   *)
(* sessions: as the claims below show, the dialogues that create one fail.   *)

validate_date_format(date_str) == StrpDmy(date_str) # NULL

validate_service_name(service) == Len(service) >= 2

(* config.SERVICES, the catalog of services, by its keys *)
SERVICES == {<<"C", "u", "t">>}

(* a step of a handler that is no Store write: the FSM context it leaves    *)
(* and whether the input was accepted                                       *)
Reply(u, handler, f, accepted) ==
    Event(u, appointments, f, Ev(handler, 0, u, accepted))

(* handle_client_messages.  The menu commands "➕ Записаться",               *)
(* "🔄 Перенести запись" and "❌ Отменить запись" are written in Latin       *)
(* letters.                                                                  *)
HandleClientMessages(u, text, now) ==
    LET data == fsm[u]
        target_date == StrpDmy(text)
    IN  CASE data.state = "waiting_for_name" ->
                 IF validate_client_name(text)
                 THEN Reply(u, "handle_client_name_input",
                            [data EXCEPT !.client_name = text,
                                         !.state = "waiting_for_date"], TRUE)
                 ELSE Reply(u, "handle_client_name_input", data, FALSE)
          [] data.state = "waiting_for_date" ->
                 IF ~validate_date_format(text) \/ target_date < today
                 THEN Reply(u, "handle_client_date_input", data, FALSE)
                 ELSE Reply(u, "handle_client_date_input",
                            [data EXCEPT !.appointment_date = IsoDate(target_date)],
                            get_available_times(appointments, text, NULL, today, now) # <<>>)
          [] data.state = "waiting_for_time" ->
                 IF /\ validate_time_format(text)
                    /\ data.appointment_date # NoDate
                    /\ text \in Range(get_available_times(appointments,
                                          DmyDate(data.appointment_date[2]),
                                          NULL, today, now))
                 THEN Reply(u, "handle_client_time_input",
                            [data EXCEPT !.appointment_time = text], TRUE)
                 ELSE Reply(u, "handle_client_time_input", data, FALSE)
          [] data.state = "waiting_for_service" ->
                 IF text \in SERVICES
                 THEN Reply(u, "handle_client_service_input",
                            [data EXCEPT !.service = text],
                            /\ data.client_name # <<>>
                            /\ data.appointment_date # NoDate
                            /\ data.appointment_time # NoTime)
                 ELSE Reply(u, "handle_client_service_input", data, FALSE)
          [] data.state = "reschedule_selection" ->
                 HandleClientRescheduleSelection(u, IntOf(text))
          [] data.state = "waiting_for_new_date" ->
                 HandleClientRescheduleDate(u, text, now)
          [] data.state = "waiting_for_new_time" ->
                 HandleClientRescheduleTime(u, text, now)
          [] data.state = "cancel_selection" ->
                 HandleClientCancelSelection(u, IntOf(text))
          [] OTHER ->
                 CASE text = <<"+", "Zapisatsya">> ->
                          Reply(u, "start_client_booking",
                                [data EXCEPT !.state = "waiting_for_name"], TRUE)
                   [] text = <<"Perenesti", "zapis">> -> StartClientReschedule(u)
                   [] text = <<"Otmenit", "zapis">> -> StartClientCancel(u)
                   [] OTHER -> Reply(u, "unknown_command", data, FALSE)

(* handle_client_callback, the callback data split into the branch it       *)
(* selects and the rest of the text.  A branch that reads a key of the      *)
(* booking not yet set raises KeyError, caught at the end of the handler    *)
(* before state.clear() is reached; book_appointment is called with seven   *)
(* positional arguments for six parameters, raises TypeError inside         *)
(* safe_database_operation, and the handler receives None.                  *)
HandleClientCallback(u, data, arg) ==
    LET booking_data == fsm[u]
        complete(b) == /\ b.client_name # <<>>
                       /\ b.appointment_date # NoDate
                       /\ b.appointment_time # NoTime
    IN  CASE data = "client_book_new" ->
                 Reply(u, "start_client_booking",
                       [booking_data EXCEPT !.state = "waiting_for_name"], TRUE)
          [] data = "client_select_time" ->
                 Reply(u, data, [booking_data EXCEPT !.appointment_time = arg], TRUE)
          [] data = "client_select_service" ->
                 Reply(u, data, [booking_data EXCEPT !.service = arg],
                       complete(booking_data))
          [] data = "client_confirm_booking" ->
                 IF complete(booking_data) /\ booking_data.service # <<>>
                 THEN Reply(u, data, Cleared, FALSE)
                 ELSE Reply(u, data, booking_data, FALSE)
          [] data \in {"client_main_menu", "client_cancel_booking",
                       "client_keep_appointment"} ->
                 Reply(u, data, Cleared, TRUE)
          [] data = "client_reschedule" -> StartRescheduleProcess(u, IntOf(arg))
          [] data = "client_cancel" -> StartCancelProcess(u, IntOf(arg))
          [] data = "client_confirm_cancel" -> ConfirmCancel(u, IntOf(arg))
          [] OTHER -> Reply(u, data, booking_data, FALSE)

(* handle_admin_messages.  "➕ Добавить запись" and "🔍 Найти запись" are     *)
(* written in Latin letters; add_appointment is called with seven           *)
(* positional arguments for six parameters, as book_appointment is.         *)
HandleAdminMessages(text) ==
    LET data == fsm[ADMIN_ID]
        appointment_id == data.id
        appointment_info == get_appointment_by_id(appointments, appointment_id)
        Answer(handler, f, accepted) == Reply(ADMIN_ID, handler, f, accepted)
        Update(handler, o) ==
            Event(ADMIN_ID, o.appointments, Cleared,
                  Ev(handler, appointment_id, ADMIN_ID, o.result))
    IN  CASE data.state = "AdminEditStates:waiting_for_search" ->
                 IF search_appointment(appointments, text) = <<>>
                 THEN Answer("handle_admin_search", data, FALSE)
                 ELSE Answer("handle_admin_search", Cleared, TRUE)
          [] data.state = "AdminEditStates:waiting_for_new_time" ->
                 IF ~validate_time_format(text)
                 THEN Answer("handle_admin_time_change", data, FALSE)
                 ELSE IF appointment_info = <<>>
                 THEN Answer("handle_admin_time_change", Cleared, FALSE)
                 ELSE IF check_time_conflict(appointments, text, appointment_info[2],
                                             appointment_id) # <<>>
                 THEN Answer("handle_admin_time_change", Cleared, FALSE)
                 ELSE Update("handle_admin_time_change",
                             update_appointment_time(appointments, clients,
                                                     appointment_id, text))
          [] data.state = "AdminEditStates:waiting_for_new_client" ->
                 IF ~validate_client_name(text)
                 THEN Answer("handle_admin_client_change", data, FALSE)
                 ELSE Update("handle_admin_client_change",
                             update_appointment_client(appointments, clients,
                                                       appointment_id, text))
          [] data.state = "AdminEditStates:waiting_for_new_service" ->
                 IF ~validate_service_name(text)
                 THEN Answer("handle_admin_service_change", data, FALSE)
                 ELSE Update("handle_admin_service_change",
                             update_appointment_service(appointments, clients,
                                                        appointment_id, text))
          [] data.state = "AdminEditStates:waiting_for_date" ->
                 IF ~validate_date_format(text)
                 THEN Answer("handle_admin_date_input", data, FALSE)
                 ELSE Answer("handle_admin_date_input", Cleared, TRUE)
          [] data.state = "AdminAddStates:waiting_for_client_name" ->
                 IF ~validate_client_name(text)
                 THEN Answer("handle_admin_add_client_name", data, FALSE)
                 ELSE Answer("handle_admin_add_client_name",
                             [data EXCEPT !.client_name = text,
                                          !.state = "AdminAddStates:waiting_for_appointment_date"],
                             TRUE)
          [] data.state = "AdminAddStates:waiting_for_appointment_date" ->
                 IF ~validate_date_format(text)
                 THEN Answer("handle_admin_add_date", data, FALSE)
                 ELSE Answer("handle_admin_add_date",
                             [data EXCEPT !.appointment_date = IsoDate(StrpDmy(text)),
                                          !.state = "AdminAddStates:waiting_for_appointment_time"],
                             TRUE)
          [] data.state = "AdminAddStates:waiting_for_appointment_time" ->
                 IF \/ ~validate_time_format(text)
                    \/ check_time_conflict(appointments, text,
                                           data.appointment_date, NULL) # <<>>
                 THEN Answer("handle_admin_add_time", data, FALSE)
                 ELSE Answer("handle_admin_add_time",
                             [data EXCEPT !.appointment_time = text,
                                          !.state = "AdminAddStates:waiting_for_service"],
                             TRUE)
          [] data.state = "AdminAddStates:waiting_for_service" ->
                 IF ~validate_service_name(text)
                 THEN Answer("handle_admin_add_service", data, FALSE)
                 ELSE Answer("handle_admin_add_service", Cleared, FALSE)
          [] OTHER ->
                 CASE text = <<"+", "Dobavit", "zapis">> ->
                          Answer("start_admin_add_appointment",
                                 [data EXCEPT !.state = "AdminAddStates:waiting_for_client_name"],
                                 TRUE)
                   [] text = <<"Nayti", "zapis">> ->
                          Answer("search_prompt",
                                 [data EXCEPT !.state = "AdminEditStates:waiting_for_search"],
                                 TRUE)
                   [] OTHER -> Answer("unknown_command", data, FALSE)

(* handle_admin_callback, the callback data split as for the client.  Data  *)
(* that no branch matches, "admin_cancel_add_appointment" among them, runs  *)
(* no branch.                                                               *)
HandleAdminCallback(data, arg) ==
    LET context == fsm[ADMIN_ID]
        appointment_id == IntOf(arg)
        Answer(f, accepted) == Reply(ADMIN_ID, data, f, accepted)
    IN  CASE data = "admin_select_date" ->
                 Answer([context EXCEPT !.state = "AdminEditStates:waiting_for_date"], TRUE)
          [] data = "admin_edit_schedule" ->
                 Answer([context EXCEPT !.state = "AdminEditStates:waiting_for_search"], TRUE)
          [] data = "admin_time" ->
                 Answer([context EXCEPT !.id = appointment_id,
                                        !.state = "AdminEditStates:waiting_for_new_time"], TRUE)
          [] data = "admin_client" ->
                 Answer([context EXCEPT !.id = appointment_id,
                                        !.state = "AdminEditStates:waiting_for_new_client"], TRUE)
          [] data = "admin_service" ->
                 Answer([context EXCEPT !.id = appointment_id,
                                        !.state = "AdminEditStates:waiting_for_new_service"], TRUE)
          [] data = "admin_confirm_delete" ->
                 IF get_appointment_by_id(appointments, appointment_id) = <<>>
                 THEN Answer(Cleared, FALSE)
                 ELSE LET o == delete_appointment(appointments, clients, appointment_id)
                      IN  Event(ADMIN_ID, o.appointments, Cleared,
                                Ev(data, appointment_id, ADMIN_ID, o.result))
          [] data \in {"admin_cancel_delete", "admin_main_menu"} ->
                 Answer(Cleared, TRUE)
          [] OTHER -> Answer(context, FALSE)

(* the texts a user types in a state: names where a name is asked, and so   *)
(* on, a menu command or a time among them, and menu commands outside       *)
(* any state                                                                *)
BotTexts(state) ==
    CASE state \in {"waiting_for_name", "AdminAddStates:waiting_for_client_name"} ->
             NameTexts \cup {<<"+", "Zapisatsya">>}
      [] state = "AdminEditStates:waiting_for_new_client" ->
             NameTexts
      [] state \in {"waiting_for_date", "waiting_for_new_date",
                    "AdminEditStates:waiting_for_date",
                    "AdminAddStates:waiting_for_appointment_date"} ->
             DateTexts \cup {StrfTime(540)}
      [] state \in {"waiting_for_time", "waiting_for_new_time",
                    "AdminEditStates:waiting_for_new_time",
                    "AdminAddStates:waiting_for_appointment_time"} ->
             TimeInputs \cup {<<"9", "3", "0">>}
      [] state \in {"reschedule_selection", "cancel_selection",
                    "AdminEditStates:waiting_for_search"} ->
             {<<Digits[id + 1]>> : id \in IdInputs}
      [] state \in {"waiting_for_service", "AdminAddStates:waiting_for_service",
                    "AdminEditStates:waiting_for_new_service"} ->
             SERVICES \cup {<<"C">>}
      [] OTHER ->
             {<<"+", "Zapisatsya">>, <<"Perenesti", "zapis">>, <<"Otmenit", "zapis">>,
              <<"+", "Dobavit", "zapis">>, <<"Nayti", "zapis">>}

(* callback data of the buttons on the keyboards of the dialogue the user   *)
(* is in, an earlier keyboard of that dialogue included, and one time and   *)
(* one service that no keyboard carries                                     *)
BotCallbacks(u) ==
    LET ids == {<<Digits[id + 1]>> : id \in 1..MaxAppts}
        state == fsm[u].state
    IN  IF u = ADMIN_ID
        THEN IF state = "None"
             THEN ({"admin_select_date", "admin_edit_schedule", "admin_cancel_delete",
                    "admin_main_menu"} \X {<<>>})
                  \cup ({"admin_time", "admin_client", "admin_service",
                         "admin_confirm_delete"} \X ids)
             ELSE IF state \in {"AdminAddStates:waiting_for_client_name",
                                "AdminAddStates:waiting_for_appointment_date",
                                "AdminAddStates:waiting_for_appointment_time",
                                "AdminAddStates:waiting_for_service"}
             THEN {"admin_cancel_add_appointment", "admin_main_menu"} \X {<<>>}
             ELSE {"admin_main_menu"} \X {<<>>}
        ELSE IF state = "None"
             THEN ({"client_book_new", "client_main_menu"} \X {<<>>})
                  \cup ({"client_reschedule", "client_cancel",
                         "client_confirm_cancel"} \X ids)
             ELSE IF state \in {"waiting_for_name", "waiting_for_date"}
             THEN ({"client_confirm_booking", "client_cancel_booking",
                    "client_change_time"} \X {<<>>})
                  \cup ({"client_select_time"} \X {StrfTime(540), <<"9", "9", ":", "9", "9">>})
                  \cup ({"client_select_service"} \X (SERVICES \cup {<<"X", "y">>}))
             ELSE {"client_keep_appointment"} \X {<<>>}

(* the session of the client for which the dispatchers are run *)
Client == 1

BotBook == \E u \in Users :
               BookAppointment(u, <<"A", "n", "n", "a">>, ClientDate, StrfTime(540), <<"C", "u", "t">>)

NextBot ==
    \/ BotBook
    \/ \E text \in BotTexts(fsm[Client].state), now \in NowInputs :
           HandleClientMessages(Client, text, now)
    \/ \E c \in BotCallbacks(Client) : HandleClientCallback(Client, c[1], c[2])
    \/ \E text \in BotTexts(fsm[ADMIN_ID].state) : HandleAdminMessages(text)
    \/ \E c \in BotCallbacks(ADMIN_ID) : HandleAdminCallback(c[1], c[2])

SpecBot == Init /\ [][NextBot]_vars

-----------------------------------------------------------------------------
(* Claims about the dialogues as the dispatchers run them *)

(* every key of the booking is set in the context of user u *)
BookingComplete(u) ==
    /\ fsm[u].client_name # <<>>
    /\ fsm[u].appointment_date # NoDate
    /\ fsm[u].appointment_time # NoTime
    /\ fsm[u].service # <<>>

(* no active appointment stands at the date and time kept in u's context *)
SlotFree(u) ==
    check_time_conflict(appointments, fsm[u].appointment_time,
                        fsm[u].appointment_date, NULL) = <<>>

(* an active row of the table holds the values kept in u's context for owner *)
Made(tbl, u, owner) ==
    \E i \in ActiveIds(tbl) :
        /\ tbl[i].telegram_user_id = owner
        /\ tbl[i].client_name = fsm[u].client_name
        /\ tbl[i].appointment_date = fsm[u].appointment_date
        /\ tbl[i].appointment_time = fsm[u].appointment_time
        /\ tbl[i].service = fsm[u].service

(* C34: every value that a dialogue hands to a write of the Store has       *)
(* passed validation first: when the client confirms a booking, the time    *)
(* kept for it has the format HH:MM and is one of the times the bot offers  *)
(* for the date kept with it.                                               *)
C34_ConfirmedValuesWereValidated ==
    [][(Called("client_confirm_booking") /\ BookingComplete(Client)) =>
          /\ validate_time_format(fsm[Client].appointment_time)
          /\ \E now \in NowInputs :
                fsm[Client].appointment_time \in
                    Range(get_available_times(appointments,
                                              DmyDate(fsm[Client].appointment_date[2]),
                                              NULL, today, now))]_vars

(* C36: a client who has given name, date, time and service and presses     *)
(* "confirm booking" while the slot is free gets the booking: the call      *)
(* succeeds and an active appointment of the client stands at the slot.     *)
C36_ConfirmedBookingIsMade ==
    [][(Called("client_confirm_booking") /\ BookingComplete(Client) /\ SlotFree(Client)) =>
          (last'.ok /\ Made(appointments', Client, Client))]_vars

(* C37: when the administrator gives the service, the last answer of the    *)
(* add dialogue, while the slot is free, add_appointment succeeds and an    *)
(* active appointment with the name, date and time collected exists.        *)
C37_CompletedAddIsMade ==
    [][(/\ Called("handle_admin_add_service")
        /\ fsm[ADMIN_ID].state = "AdminAddStates:waiting_for_service"
        /\ fsm'[ADMIN_ID] = Cleared
        /\ SlotFree(ADMIN_ID)) =>
          (/\ last'.ok
           /\ \E i \in ActiveIds(appointments') :
                 /\ appointments'[i].client_name = fsm[ADMIN_ID].client_name
                 /\ appointments'[i].appointment_date = fsm[ADMIN_ID].appointment_date
                 /\ appointments'[i].appointment_time = fsm[ADMIN_ID].appointment_time)]_vars

(* C38: in the client booking, once a valid date with a free slot has been  *)
(* accepted the dialogue waits for the time, so that a typed time is        *)
(* handled by handle_client_time_input.                                     *)
C38_AcceptedDateAwaitsTime ==
    (last.op = "handle_client_date_input" /\ last.ok) =>
        fsm[last.rid].state = "waiting_for_time"

(* C39: a press of the cancel button that get_cancel_operation_keyboard     *)
(* puts under the prompts of a dialogue, of the administrator's add         *)
(* dialogue or of the client's booking, leaves the user in no FSM state.    *)
C39_CancelButtonEndsDialogue ==
    [][(\/ HandleAdminCallback("admin_cancel_add_appointment", <<>>)
        \/ HandleClientCallback(Client, "client_cancel_booking", <<>>)) =>
          fsm'[last'.rid].state = "None"]_vars

(* the states in which the next text ends a dialogue with a call of the     *)
(* Store, and the callback data that do                                     *)
CommitStates ==
    {"waiting_for_new_time", "AdminEditStates:waiting_for_new_time",
     "AdminEditStates:waiting_for_new_client", "AdminEditStates:waiting_for_new_service",
     "AdminAddStates:waiting_for_service"}

CommitCallbacks == {"client_confirm_booking", "client_confirm_cancel", "admin_confirm_delete"}

(* C31: no step of a dialogue (client booking, reschedule and cancel, the    *)
(* administrator's add and edit) before its commit step writes to the Store: *)
(* a step that changes the appointments or the clients is no text and no     *)
(* callback handled outside the commit steps, so an abandoned dialogue has   *)
(* changed nothing.                                                          *)
C31_OnlyCommitStepsWrite ==
    [][(appointments' # appointments \/ clients' # clients) =>
          /\ \A text \in BotTexts(fsm[Client].state), now \in NowInputs :
                 ~(/\ fsm[Client].state \notin CommitStates
                   /\ HandleClientMessages(Client, text, now))
          /\ \A c \in BotCallbacks(Client) :
                 ~(c[1] \notin CommitCallbacks /\ HandleClientCallback(Client, c[1], c[2]))
          /\ \A text \in BotTexts(fsm[ADMIN_ID].state) :
                 ~(fsm[ADMIN_ID].state \notin CommitStates /\ HandleAdminMessages(text))
          /\ \A c \in BotCallbacks(ADMIN_ID) :
                 ~(c[1] \notin CommitCallbacks /\ HandleAdminCallback(c[1], c[2]))]_vars

(* the client has chosen their appointment and a new date and has not yet   *)
(* given the time: the appointment stands where it was booked               *)
C31_Witness ==
    /\ fsm[Client].state = "waiting_for_new_time"
    /\ fsm[Client].date # NoDate
    /\ fsm[Client].id \in ActiveIds(appointments)
    /\ appointments[fsm[Client].id] =
           Row(<<"A", "n", "n", "a">>, Client, NoPhone, ClientDate, StrfTime(540),
               <<"C", "u", "t">>, "active")

====
